---- MODULE Spec2Model ----
(***************************************************************************)
(* NFO tracker dashboard: the route-engine selector (lib/routing.ts and    *)
(* the Route Planner's inline fetchRoute) and the enrichment pipeline      *)
(* (page.tsx enrichedNfos, FieldEngineerRow.handleRoute, lib/nfoHelpers).  *)
(*                                                                         *)
(* Units.  Every distance is an integer number of metres: the source's     *)
(* "Km" values are these divided by 1000 (0.001 km = 1).  Coordinates are  *)
(* integers in units of 0.00001 degree, a point is <<lng, lat>> as in the  *)
(* ORS/OSRM coordinate arrays.  Strings are sequences of pieces: a piece   *)
(* is a one-character string (identifiers, digits) or a literal fragment   *)
(* of a template.  An optional value is the empty set (null/undefined) or  *)
(* a singleton.                                                            *)
(***************************************************************************)
EXTENDS Integers, Sequences, FiniteSets, TLC

VARIABLES
    \* ---- route request (lib/routing.ts, RoutePlanner.fetchRoute) ----
    pc,          \* "idle" | "awaitOrs" | "awaitOsrm" | "done"
    mode,        \* "none" | "direct" | "via" | "legacy"
    req,         \* [nfo, wh, site]: the endpoints of the request, wh optional
    leg,         \* the leg being routed: 1 or 2
    orsResult,   \* per leg: what fetchOrsRoute resolved to (optional)
    osrmResult,  \* per leg: what fetchOsrmRoute resolved to (optional)
    legs,        \* per leg: the RouteResult of calculateBestRoute (optional)
    result,      \* the RouteResult the caller of the library receives
    orsCalls,    \* requests sent to engine A for this route request
    osrmCalls,   \* requests sent to engine B for this route request
    responses,   \* per leg: what each engine's HTTP exchange yielded (optional)
    planner,     \* Route Planner state: routeResult, routeLoading, routeError, routeWarning
    \* ---- enrichment (page.tsx) and helpers (lib/nfoHelpers.ts) ----
    nfo,         \* the engineer row
    sites,       \* the site list
    warehouses,  \* the warehouse list
    enriched,    \* the enriched row (optional: not yet computed)
    rowPlan,     \* what handleRoute resolved for the row (optional)
    fmtIn,       \* argument of formatDistanceLabel
    fmtOut,      \* its result (optional: not yet called)
    \* ---- route slots (FieldEngineerRow, RoutePlanner, Live Map, NFO routes) ----
    fieldEngineerRow, \* per row: routeResult, routeLoading, routeError
    rowPending,       \* per row: the handleRoute calls awaiting the library
    rowCount,         \* per row: Route clicks and library requests so far
    routePlanner,     \* Route Planner: routeResult, routeLoading, routeError, routeWarning
    plannerPending,   \* its fetchRoute calls awaiting the library
    plannerCount,     \* its Route clicks and library requests so far
    liveMap,          \* Live Map: activeRoute, routeLoading, routeError
    livePending,      \* its fetchRoute calls awaiting the backend
    liveNewest,       \* the newest Live Map request and how it ended
    routesView,       \* NFO routes view: selectedUsername, routeCoords, loadingRoute, error
    viewPending,      \* its effect's fetchRoute calls awaiting the backend
    viewNewest,       \* the newest routes-view request and how it ended
    \* ---- dashboard data (HomePage.fetchDashboardData) ----
    homePage,         \* nfos, sites, warehouses, loading, error, refreshError, initialLoadComplete
    loads,            \* the fetchDashboardData calls made so far, in order
    \* ---- site selection (RoutePlanner, Live Map) ----
    siteLookup,       \* sites: the site list, selectedSiteId: the selector's value
    \* ---- site helpers (lib/nfoHelpers.ts) ----
    lookup,           \* the last call of getSiteById or findNearestSite and its result
    \* ---- via-warehouse path (lib/routing.ts) ----
    joined,           \* the two legs' coordinates and the combined path (optional)
    \* ---- site pagination (HomePage.fetchDashboardData) ----
    pager             \* the Site_Coordinates table, the loop's variables, the stored sites

routeVars == <<pc, mode, req, leg, orsResult, osrmResult, legs, result,
               orsCalls, osrmCalls, responses, planner>>
enrichVars == <<nfo, sites, warehouses, enriched, rowPlan, fmtIn, fmtOut>>
rowVars == <<fieldEngineerRow, rowPending, rowCount,
             routePlanner, plannerPending, plannerCount>>
slotVars == <<liveMap, livePending, liveNewest, routesView, viewPending, viewNewest>>
vars == <<pc, mode, req, leg, orsResult, osrmResult, legs, result,
          orsCalls, osrmCalls, responses, planner,
          nfo, sites, warehouses, enriched, rowPlan, fmtIn, fmtOut,
          fieldEngineerRow, rowPending, rowCount,
          routePlanner, plannerPending, plannerCount,
          liveMap, livePending, liveNewest, routesView, viewPending, viewNewest,
          homePage, loads, siteLookup, lookup, joined, pager>>
dashVars == <<homePage, loads>>
siteVars == <<siteLookup, lookup>>
joinVars == <<joined>>
pageVars == <<pager>>

----------------------------------------------------------------------------
(* Optional values and small helpers *)

Null == {}
Some(x) == {x}
Val(o) == CHOOSE v \in o : TRUE

Max2(a, b) == IF a >= b THEN a ELSE b

RECURSIVE Digits(_)
Digits(n) ==
    LET d == <<"0", "1", "2", "3", "4", "5", "6", "7", "8", "9">>
    IN  IF n < 10 THEN <<d[n + 1]>> ELSE Digits(n \div 10) \o <<d[(n % 10) + 1]>>

\* Number.prototype.toFixed(1) of m/1000, m >= 0 an integer number of metres
toFixed1(m) ==
    LET t == (m + 50) \div 100
    IN  Digits(t \div 10) \o <<".">> \o Digits(t % 10)

\* Number.prototype.toFixed(2) of m/1000
toFixed2(m) ==
    LET c == (m + 5) \div 10
    IN  Digits(c \div 100) \o <<".">> \o Digits((c % 100) \div 10) \o Digits(c % 10)

\* whether the string (sequence of pieces) s contains the string t
Contains(s, t) ==
    \E i \in 0..(Len(s) - Len(t)) : \A j \in 1..Len(t) : s[i + j] = t[j]

----------------------------------------------------------------------------
(* Geometry: sample positions and their great-circle distances *)

NfoPos  == <<3920000, 2150000>>   \* lat 21.5, lng 39.2
NearPos == <<3930000, 2160000>>   \* lat 21.6, lng 39.3
FarPos  == <<3550000, 1850000>>   \* lat 18.5, lng 35.5
WhPos   == <<3960000, 2140000>>   \* lat 21.4, lng 39.6

\* The haversine formula (R = 6371 km) evaluated on the sample positions,
\* rounded to the metre.
haversineKm(a, b) ==
    IF a = b THEN 0
    ELSE CASE {a, b} = {NfoPos, NearPos} -> 15186
           [] {a, b} = {NfoPos, FarPos}  -> 510580
           [] {a, b} = {NfoPos, WhPos}   -> 42865
           [] {a, b} = {NearPos, FarPos} -> 525657
           [] {a, b} = {NearPos, WhPos}  -> 38182
           [] {a, b} = {FarPos, WhPos}   -> 536253

----------------------------------------------------------------------------
(* lib/routing.ts *)

ROUTE_SANITY_RATIO_THRESHOLD == 2

\* the 0.001 of Math.max(airDistanceKm, 0.001)
MinAirKm == 1

\* a sanity check that already fires at the threshold
RatioAtOrAboveThreshold(km, airKm) ==
    km >= ROUTE_SANITY_RATIO_THRESHOLD * Max2(airKm, MinAirKm)

\* km / Math.max(airKm, 0.001) > ROUTE_SANITY_RATIO_THRESHOLD
RatioAboveThreshold(km, airKm) ==
    km > ROUTE_SANITY_RATIO_THRESHOLD * Max2(airKm, MinAirKm)

FallbackWarning ==
    <<"Could not calculate driving route. Showing straight-line distance.">>

SanityWarning(km, airKm) ==
    <<"Driving distance is ">> \o toFixed1(km) \o <<" km vs straight-line ">>
        \o toFixed1(airKm) \o <<" km. Map data may be inaccurate in this area.">>

\* orsKm != null && orsCoords != null && orsMin != null, on `r?.x ?? null`
Usable(r) == r # Null /\ Val(r).coordinates # Null

\* a selector that takes the shorter route whatever its ratio
OsrmIsBetterWhenShorter(ors, osrm, airKm) ==
    /\ Usable(osrm)
    /\ Val(osrm).distanceKm < Val(ors).distanceKm

\* "Check if OSRM is better: shorter AND not crazy (ratio <= 2.0)", ORS usable
OsrmIsBetter(ors, osrm, airKm) ==
    /\ Usable(osrm)
    /\ Val(osrm).distanceKm < Val(ors).distanceKm
    /\ ~RatioAboveThreshold(Val(osrm).distanceKm, airKm)

\* a fallback that says nothing about the straight line
FallbackResultSilent(coords, airKm) ==
    [distanceKm |-> airKm, durationMin |-> 0, engine |-> "ors",
     coordinates |-> coords, airDistanceKm |-> airKm,
     isFallback |-> TRUE, warning |-> Null]

\* the result returned when both engines failed
FallbackResult(coords, airKm) ==
    [distanceKm |-> airKm, durationMin |-> 0, engine |-> "ors",
     coordinates |-> coords, airDistanceKm |-> airKm,
     isFallback |-> TRUE, warning |-> Some(FallbackWarning)]

\* a selector that falls back as soon as ORS gives nothing usable
calculateBestRouteOrsOnly(start, end, ors, osrm) ==
    LET airDistanceKm == haversineKm(start, end)
    IN  IF ~Usable(ors)
        THEN FallbackResult(<<start, end>>, airDistanceKm)
        ELSE [distanceKm |-> Val(ors).distanceKm, durationMin |-> Val(ors).durationMin,
              engine |-> "ors", coordinates |-> Val(Val(ors).coordinates),
              airDistanceKm |-> airDistanceKm, isFallback |-> FALSE,
              warning |-> IF RatioAboveThreshold(Val(ors).distanceKm, airDistanceKm)
                          THEN Some(SanityWarning(Val(ors).distanceKm, airDistanceKm))
                          ELSE Null]

\* calculateBestRoute from the two engines' answers on: steps 4 to 6
calculateBestRoute(start, end, ors, osrm) ==
    LET airDistanceKm == haversineKm(start, end)
        coords == <<start, end>>
        osrmBetter == OsrmIsBetter(ors, osrm, airDistanceKm)
        finalEngine ==
            IF Usable(ors) THEN (IF osrmBetter THEN "osrm" ELSE "ors") ELSE "osrm"
        final == IF finalEngine = "ors" THEN Val(ors) ELSE Val(osrm)
    IN  IF ~Usable(ors) /\ ~Usable(osrm)
        THEN FallbackResult(coords, airDistanceKm)
        ELSE [distanceKm |-> final.distanceKm, durationMin |-> final.durationMin,
              engine |-> finalEngine, coordinates |-> Val(final.coordinates),
              airDistanceKm |-> airDistanceKm, isFallback |-> FALSE,
              warning |-> IF RatioAboveThreshold(final.distanceKm, airDistanceKm)
                          THEN Some(SanityWarning(final.distanceKm, airDistanceKm))
                          ELSE Null]

\* a join that looks at the first component (longitude) alone
CombineCoordinatesByLongitude(c1, c2) ==
    IF Len(c2) > 0
    THEN LET isSamePoint ==
                 /\ Len(c1) > 0
                 /\ LET d0 == c1[Len(c1)][1] - c2[1][1]
                    IN  (IF d0 < 0 THEN -d0 ELSE d0) < 10
         IN  IF isSamePoint THEN c1 \o Tail(c2) ELSE c1 \o c2
    ELSE c1

\* the coordinates of the combined route: leg 1, then leg 2 without its first
\* point when that point is within 0.0001 degree of leg 1's last point
CombineCoordinates(c1, c2) ==
    IF Len(c2) > 0
    THEN LET isSamePoint ==
                 /\ Len(c1) > 0
                 /\ LET leg1End == c1[Len(c1)]
                        leg2Start == c2[1]
                        d0 == leg1End[1] - leg2Start[1]
                        d1 == leg1End[2] - leg2Start[2]
                    IN  /\ (IF d0 < 0 THEN -d0 ELSE d0) < 10
                        /\ (IF d1 < 0 THEN -d1 ELSE d1) < 10
         IN  IF isSamePoint THEN c1 \o Tail(c2) ELSE c1 \o c2
    ELSE c1

\* [leg1.warning, leg2.warning].filter(Boolean).join(" ")
JoinLegWarnings(w1, w2) ==
    IF w1 # Null /\ w2 # Null THEN Val(w1) \o <<" ">> \o Val(w2)
    ELSE IF w1 # Null THEN Val(w1) ELSE Val(w2)

\* a baseline summed over the two legs
directNfoSiteKmSummed(nfoP, whP, siteP) ==
    haversineKm(nfoP, whP) + haversineKm(whP, siteP)

\* step 1: "direct NFO->Site air distance for the warning comparison (not the
\* sum of legs ...)"
directNfoSiteKm(nfoP, whP, siteP) == haversineKm(nfoP, siteP)

\* step 6: the overall engine
OverallEngine(leg1, leg2) ==
    IF leg1.engine = "ors" /\ leg2.engine = "ors" THEN "ors" ELSE "osrm"

\* a combination that gives up as soon as one leg fell back
calculateRouteViaWarehouseAnyFallback(nfoP, whP, siteP, leg1, leg2) ==
    LET directKm == directNfoSiteKm(nfoP, whP, siteP)
        totalKm == leg1.distanceKm + leg2.distanceKm
        totalMin == leg1.durationMin + leg2.durationMin
        hasLegWarnings == leg1.warning # Null \/ leg2.warning # Null
    IN  IF leg1.isFallback \/ leg2.isFallback
        THEN [distanceKm |-> leg1.airDistanceKm + leg2.airDistanceKm,
              durationMin |-> 0, engine |-> "ors",
              coordinates |-> <<nfoP, whP, siteP>>,
              airDistanceKm |-> directKm, isFallback |-> TRUE,
              warning |-> Some(FallbackWarning)]
        ELSE [distanceKm |-> totalKm, durationMin |-> totalMin,
              engine |-> OverallEngine(leg1, leg2),
              coordinates |-> CombineCoordinates(leg1.coordinates, leg2.coordinates),
              airDistanceKm |-> directKm, isFallback |-> FALSE,
              warning |-> IF RatioAboveThreshold(totalKm, directKm)
                          THEN Some(SanityWarning(totalKm, directKm))
                          ELSE IF hasLegWarnings
                               THEN Some(JoinLegWarnings(leg1.warning, leg2.warning))
                               ELSE Null]

\* calculateRouteViaWarehouse from the two legs' results on: steps 4 to 7
calculateRouteViaWarehouse(nfoP, whP, siteP, leg1, leg2) ==
    LET directKm == directNfoSiteKm(nfoP, whP, siteP)
        totalKm == leg1.distanceKm + leg2.distanceKm
        totalMin == leg1.durationMin + leg2.durationMin
        engine == OverallEngine(leg1, leg2)
        hasLegWarnings == leg1.warning # Null \/ leg2.warning # Null
    IN  IF leg1.isFallback /\ leg2.isFallback
        THEN [distanceKm |-> leg1.airDistanceKm + leg2.airDistanceKm,
              durationMin |-> 0, engine |-> "ors",
              coordinates |-> <<nfoP, whP, siteP>>,
              airDistanceKm |-> directKm, isFallback |-> TRUE,
              warning |-> Some(FallbackWarning)]
        ELSE [distanceKm |-> totalKm, durationMin |-> totalMin, engine |-> engine,
              coordinates |-> CombineCoordinates(leg1.coordinates, leg2.coordinates),
              airDistanceKm |-> directKm, isFallback |-> FALSE,
              warning |-> IF RatioAboveThreshold(totalKm, directKm)
                          THEN Some(SanityWarning(totalKm, directKm))
                          ELSE IF hasLegWarnings
                               THEN Some(JoinLegWarnings(leg1.warning, leg2.warning))
                               ELSE Null]

----------------------------------------------------------------------------
(* The two routing engines: what a request may be answered with *)

\* distances an engine may report for a leg of air distance airKm: the air
\* distance itself, exactly 2.0 x, just above 2.0 x, and 3.0 x
EngineDistances(airKm) ==
    LET m == Max2(airKm, MinAirKm) IN {m, 2 * m, 2 * m + 1, 3 * m}

EngineDurations == {20, 30}

Shift(p, d) == <<p[1] + d, p[2]>>
Midpoint(s, e) == <<(s[1] + e[1]) \div 2, (s[2] + e[2]) \div 2>>

\* ORS geometry: starts and ends on the requested points
OrsPath(pts) ==
    <<pts[1], Shift(Midpoint(pts[1], pts[Len(pts)]), 100), pts[Len(pts)]>>
\* OSRM geometry: snapped to the road network near the requested points
OsrmPath(s, e) == <<Shift(s, 20), Shift(Midpoint(s, e), -100), Shift(e, 5)>>

\* what an engine's fetch wrapper resolves to: null (network error, non-success
\* response, no route), a route, or a route without a coordinates array
EngineAnswers(airKm, path) ==
    {Null}
      \cup {Some([distanceKm |-> d, durationMin |-> t, coordinates |-> Some(path)]) :
                d \in EngineDistances(airKm), t \in EngineDurations}
      \cup {Some([distanceKm |-> Max2(airKm, MinAirKm), durationMin |-> 20,
                  coordinates |-> Null])}

\* what the HTTP exchange with an engine yields: fetch or response.json()
\* throws, the body reports no success, it reports success without a route,
\* or it carries a route
EngineResponses(airKm, path) ==
    {[thrown |-> TRUE, ok |-> FALSE, route |-> Null],
     [thrown |-> FALSE, ok |-> FALSE, route |-> Null],
     [thrown |-> FALSE, ok |-> TRUE, route |-> Null]}
      \cup {[thrown |-> FALSE, ok |-> TRUE, route |-> a] :
                a \in EngineAnswers(airKm, path) \ {Null}}

\* try { if (data.ok && data.route) return {...}; return null } catch { return null }
fetchOrsRoute(resp) ==
    IF resp.thrown THEN Null
    ELSE IF resp.ok /\ resp.route # Null THEN resp.route ELSE Null

\* try { if (data.code === "Ok" && data.routes && data.routes[0]) return {...};
\* return null } catch { return null }
fetchOsrmRoute(resp) ==
    IF resp.thrown THEN Null
    ELSE IF resp.ok /\ resp.route # Null THEN resp.route ELSE Null

----------------------------------------------------------------------------
(* Route requests through the library *)

DirectRequests ==
    {[nfo |-> NfoPos, wh |-> Null, site |-> p] : p \in {NearPos, FarPos, NfoPos}}
ViaRequests ==
    {[nfo |-> NfoPos, wh |-> Some(WhPos), site |-> p] : p \in {NearPos, FarPos}}
      \cup {[nfo |-> NfoPos, wh |-> Some(NfoPos), site |-> NearPos]}

LegStart(r, l) == IF r.wh = Null \/ l = 1 THEN r.nfo ELSE Val(r.wh)
LegEnd(r, l) == IF r.wh = Null \/ l = 2 THEN r.site ELSE Val(r.wh)
LegAir(r, l) == haversineKm(LegStart(r, l), LegEnd(r, l))

NoPlanner ==
    [routeResult |-> Null, routeLoading |-> FALSE, routeError |-> Null,
     routeWarning |-> Null]

InitRoute ==
    /\ pc = "idle" /\ mode = "none"
    /\ req = [nfo |-> NfoPos, wh |-> Null, site |-> NfoPos]
    /\ leg = 1
    /\ orsResult = <<Null, Null>> /\ osrmResult = <<Null, Null>>
    /\ legs = <<Null, Null>>
    /\ result = Null
    /\ orsCalls = 0 /\ osrmCalls = 0
    /\ responses = <<[ors |-> Null, osrm |-> Null], [ors |-> Null, osrm |-> Null]>>
    /\ planner = NoPlanner

\* calculateBestRoute(startLat, startLon, endLat, endLon) is called: up to the
\* await of fetchOrsRoute
CallBestRoute(r) ==
    /\ pc = "idle"
    /\ mode' = "direct" /\ req' = r /\ leg' = 1
    /\ orsCalls' = orsCalls + 1
    /\ pc' = "awaitOrs"
    /\ UNCHANGED <<orsResult, osrmResult, legs, result, osrmCalls, planner>>
    /\ UNCHANGED responses
    /\ UNCHANGED <<enrichVars, rowVars, slotVars, dashVars, siteVars, joinVars, pageVars>>

\* calculateRouteWithWaypoints with three coordinates, hence
\* calculateRouteViaWarehouse: up to leg 1's await of fetchOrsRoute
CallRouteViaWarehouse(r) ==
    /\ pc = "idle"
    /\ mode' = "via" /\ req' = r /\ leg' = 1
    /\ orsCalls' = orsCalls + 1
    /\ pc' = "awaitOrs"
    /\ UNCHANGED <<orsResult, osrmResult, legs, result, osrmCalls, planner>>
    /\ UNCHANGED responses
    /\ UNCHANGED <<enrichVars, rowVars, slotVars, dashVars, siteVars, joinVars, pageVars>>

\* calculateBestRoute selects between the two answers and returns.  In a
\* via-warehouse request leg 1's return is followed by leg 2's call and leg 2's
\* return by the combination of the legs.
ReturnBestRoute(ors, osrm) ==
    LET best == calculateBestRoute(LegStart(req, leg), LegEnd(req, leg), ors, osrm)
    IN  /\ legs' = [legs EXCEPT ![leg] = Some(best)]
        /\ IF mode = "direct"
           THEN /\ result' = Some(best)
                /\ pc' = "done"
                /\ UNCHANGED <<leg, orsCalls>>
           ELSE IF leg = 1
           THEN /\ leg' = 2
                /\ orsCalls' = orsCalls + 1
                /\ pc' = "awaitOrs"
                /\ UNCHANGED result
           ELSE /\ result' = Some(calculateRouteViaWarehouse(
                                    req.nfo, Val(req.wh), req.site,
                                    Val(legs[1]), best))
                /\ pc' = "done"
                /\ UNCHANGED <<leg, orsCalls>>

\* a selector that asks OSRM only when ORS gave nothing usable
OrsResolvesWithoutComparison(resp) ==
    /\ pc = "awaitOrs" /\ mode \in {"direct", "via"}
    /\ orsResult' = [orsResult EXCEPT ![leg] = fetchOrsRoute(resp)]
    /\ responses' = [responses EXCEPT ![leg].ors = Some(resp)]
    /\ IF Usable(fetchOrsRoute(resp))
       THEN /\ ReturnBestRoute(fetchOrsRoute(resp), Null)
            /\ UNCHANGED <<mode, req, osrmResult, osrmCalls, planner>>
       ELSE /\ osrmCalls' = osrmCalls + 1
            /\ pc' = "awaitOsrm"
            /\ UNCHANGED <<mode, req, leg, osrmResult, legs, result, orsCalls, planner>>
    /\ UNCHANGED <<enrichVars, rowVars, slotVars, dashVars, siteVars, joinVars, pageVars>>

\* fetchOrsRoute resolves; calculateBestRoute goes on to await fetchOsrmRoute
OrsResolves(resp) ==
    /\ pc = "awaitOrs" /\ mode \in {"direct", "via"}
    /\ orsResult' = [orsResult EXCEPT ![leg] = fetchOrsRoute(resp)]
    /\ responses' = [responses EXCEPT ![leg].ors = Some(resp)]
    /\ osrmCalls' = osrmCalls + 1
    /\ pc' = "awaitOsrm"
    /\ UNCHANGED <<mode, req, leg, osrmResult, legs, result, orsCalls, planner>>
    /\ UNCHANGED <<enrichVars, rowVars, slotVars, dashVars, siteVars, joinVars, pageVars>>

\* fetchOsrmRoute resolves; calculateBestRoute selects and returns
OsrmResolves(resp) ==
    /\ pc = "awaitOsrm" /\ mode \in {"direct", "via"}
    /\ osrmResult' = [osrmResult EXCEPT ![leg] = fetchOsrmRoute(resp)]
    /\ responses' = [responses EXCEPT ![leg].osrm = Some(resp)]
    /\ ReturnBestRoute(orsResult[leg], fetchOsrmRoute(resp))
    /\ UNCHANGED <<mode, req, orsResult, osrmCalls, planner>>
    /\ UNCHANGED <<enrichVars, rowVars, slotVars, dashVars, siteVars, joinVars, pageVars>>

----------------------------------------------------------------------------
(* components/RoutePlanner.tsx: fetchRoute with its own engine comparison *)

PlannerRequests ==
    {[nfo |-> NfoPos, wh |-> Null, site |-> p] : p \in {NearPos, NfoPos}}
      \cup {[nfo |-> NfoPos, wh |-> Some(WhPos), site |-> FarPos]}

\* coords: NFO -> (optional warehouse) -> site
PlannerCoords(r) ==
    IF r.wh # Null THEN <<r.nfo, Val(r.wh), r.site>> ELSE <<r.nfo, r.site>>

\* directKm: the straight-line distance, summed over the legs with a warehouse
PlannerDirectKm(r) ==
    IF r.wh # Null
    THEN haversineKm(r.nfo, Val(r.wh)) + haversineKm(Val(r.wh), r.site)
    ELSE haversineKm(r.nfo, r.site)

PlannerSanityWarning(km, airKm) ==
    <<"Warning: driving distance is ">> \o toFixed1(km) \o <<" km vs straight-line ">>
        \o toFixed1(airKm) \o <<" km. Map data may be inaccurate in this area.">>

\* fetchRoute from the engines' answers on: steps 3 and 4, the state it stores
PlannerFinish(r, ors, osrm) ==
    LET directKm == PlannerDirectKm(r)
        osrmBetter ==
            /\ Usable(osrm)
            /\ Val(osrm).distanceKm < Val(ors).distanceKm
            /\ Val(osrm).distanceKm <= ROUTE_SANITY_RATIO_THRESHOLD * Max2(directKm, MinAirKm)
        finalEngine ==
            IF Usable(ors) THEN (IF osrmBetter THEN "osrm" ELSE "ors") ELSE "osrm"
        final == IF finalEngine = "ors" THEN Val(ors) ELSE Val(osrm)
    IN  IF ~Usable(ors) /\ ~Usable(osrm)
        THEN [routeResult |-> Some([coordinates |-> PlannerCoords(r),
                                    distanceMeters |-> directKm,
                                    durationSeconds |-> 0,
                                    viaWarehouse |-> r.wh # Null,
                                    isFallback |-> TRUE, engine |-> "ors",
                                    directDistanceKm |-> directKm]),
              routeLoading |-> FALSE, routeError |-> Null, routeWarning |-> Null]
        ELSE [routeResult |-> Some([coordinates |-> Val(final.coordinates),
                                    distanceMeters |-> final.distanceKm,
                                    durationSeconds |-> final.durationMin * 60,
                                    viaWarehouse |-> r.wh # Null,
                                    isFallback |-> FALSE, engine |-> finalEngine,
                                    directDistanceKm |-> directKm]),
              routeLoading |-> FALSE, routeError |-> Null,
              routeWarning |-> IF RatioAboveThreshold(final.distanceKm, directKm)
                               THEN Some(PlannerSanityWarning(final.distanceKm, directKm))
                               ELSE Null]

\* the notices the route summary panel renders for a stored route
PlannerNotices(p) ==
    IF p.routeResult = Null THEN {}
    ELSE (IF Val(p.routeResult).isFallback
          THEN {<<"(No road match near site - showing straight line)">>} ELSE {})
         \cup (IF p.routeWarning # Null THEN {Val(p.routeWarning)} ELSE {})

\* fetchRoute is invoked: the previous route is cleared and ORS is requested
\* with all the waypoints
PlannerFetchRoute(r) ==
    /\ pc = "idle"
    /\ mode' = "legacy" /\ req' = r /\ leg' = 1
    /\ planner' = [routeResult |-> Null, routeLoading |-> TRUE,
                   routeError |-> Null, routeWarning |-> Null]
    /\ orsCalls' = orsCalls + 1
    /\ pc' = "awaitOrs"
    /\ UNCHANGED <<orsResult, osrmResult, legs, result, osrmCalls>>
    /\ UNCHANGED responses
    /\ UNCHANGED <<enrichVars, rowVars, slotVars, dashVars, siteVars, joinVars, pageVars>>

\* the ORS response arrives; OSRM is requested only without a warehouse
PlannerOrsResolves(a) ==
    /\ pc = "awaitOrs" /\ mode = "legacy"
    /\ orsResult' = [orsResult EXCEPT ![1] = a]
    /\ IF req.wh = Null
       THEN /\ osrmCalls' = osrmCalls + 1
            /\ pc' = "awaitOsrm"
            /\ UNCHANGED planner
       ELSE /\ planner' = PlannerFinish(req, a, Null)
            /\ pc' = "done"
            /\ UNCHANGED osrmCalls
    /\ UNCHANGED <<mode, req, leg, osrmResult, legs, result, orsCalls>>
    /\ UNCHANGED responses
    /\ UNCHANGED <<enrichVars, rowVars, slotVars, dashVars, siteVars, joinVars, pageVars>>

\* fetch("/api/ors-route") or response.json() throws: the catch block
PlannerOrsThrows ==
    /\ pc = "awaitOrs" /\ mode = "legacy"
    /\ planner' = [routeResult |-> Null, routeLoading |-> FALSE,
                   routeError |-> Some(<<"Failed to calculate route. Please try again.">>),
                   routeWarning |-> Null]
    /\ pc' = "done"
    /\ UNCHANGED <<mode, req, leg, orsResult, osrmResult, legs, result,
                   orsCalls, osrmCalls>>
    /\ UNCHANGED responses
    /\ UNCHANGED <<enrichVars, rowVars, slotVars, dashVars, siteVars, joinVars, pageVars>>

\* fetchOsrmRoute resolves; the engines are compared and the route stored
PlannerOsrmResolves(a) ==
    /\ pc = "awaitOsrm" /\ mode = "legacy"
    /\ osrmResult' = [osrmResult EXCEPT ![1] = a]
    /\ planner' = PlannerFinish(req, orsResult[1], a)
    /\ pc' = "done"
    /\ UNCHANGED <<mode, req, leg, orsResult, legs, result, orsCalls, osrmCalls>>
    /\ UNCHANGED responses
    /\ UNCHANGED <<enrichVars, rowVars, slotVars, dashVars, siteVars, joinVars, pageVars>>

----------------------------------------------------------------------------
(* lib/nfoHelpers.ts *)

\* a JavaScript number that may be null or not finite
Num(v) == [k |-> "num", v |-> v]
NullNum == [k |-> "null", v |-> 0]
NaN == [k |-> "nan", v |-> 0]
Infinity == [k |-> "inf", v |-> 0]
isFinite(x) == x.k = "num"

UpperLetters ==
    <<"A", "B", "C", "D", "E", "F", "G", "H", "I", "J", "K", "L", "M",
      "N", "O", "P", "Q", "R", "S", "T", "U", "V", "W", "X", "Y", "Z">>
LowerLetters ==
    <<"a", "b", "c", "d", "e", "f", "g", "h", "i", "j", "k", "l", "m",
      "n", "o", "p", "q", "r", "s", "t", "u", "v", "w", "x", "y", "z">>

OtherCharacters == {" ", "-", "0", "1", "2", "3", "4", "5", "6", "7", "8", "9"}
Characters ==
    {UpperLetters[j] : j \in 1..26} \cup {LowerLetters[j] : j \in 1..26}
        \cup OtherCharacters

\* the lower-case form of one character
LowerOf ==
    [c \in Characters |->
        IF \E j \in 1..26 : UpperLetters[j] = c
        THEN LowerLetters[CHOOSE j \in 1..26 : UpperLetters[j] = c]
        ELSE c]

\* String.prototype.toLowerCase on a string of one-character pieces
toLowerCase(s) == [i \in 1..Len(s) |-> LowerOf[s[i]]]

RECURSIVE trimStart(_)
trimStart(s) == IF s # <<>> /\ Head(s) = " " THEN trimStart(Tail(s)) ELSE s
RECURSIVE trimEnd(_)
trimEnd(s) ==
    IF s # <<>> /\ s[Len(s)] = " " THEN trimEnd(SubSeq(s, 1, Len(s) - 1)) ELSE s
\* String.prototype.trim
trim(s) == trimEnd(trimStart(s))

\* value ?? "" on an optional string
OrEmpty(o) == IF o = Null THEN <<>> ELSE Val(o)

hasValidLocation(loc) ==
    /\ loc.lat.k # "null" /\ loc.lng.k # "null"
    /\ isFinite(loc.lat) /\ isFinite(loc.lng)

\* the haversine distance of two valid locations
calculateDistanceKm(a, b) ==
    haversineKm(<<a.lng.v, a.lat.v>>, <<b.lng.v, b.lat.v>>)

SiteLoc(site) == [lat |-> site.latitude, lng |-> site.longitude]

\* the loop of findNearestSite from index i on, best being the best so far
RECURSIVE NearestFrom(_, _, _, _)
NearestFrom(nfoLoc, ss, i, best) ==
    IF i > Len(ss) THEN best
    ELSE IF ~hasValidLocation(SiteLoc(ss[i])) THEN NearestFrom(nfoLoc, ss, i + 1, best)
    ELSE LET d == calculateDistanceKm(nfoLoc, SiteLoc(ss[i]))
         IN  IF best = Null \/ d < Val(best).distanceKm
             THEN NearestFrom(nfoLoc, ss, i + 1, Some([site |-> ss[i], distanceKm |-> d]))
             ELSE NearestFrom(nfoLoc, ss, i + 1, best)

\* a search without the guard on the engineer's own location
findNearestSiteUnguarded(nfoLoc, ss) ==
    LET valid == {i \in 1..Len(ss) : hasValidLocation(SiteLoc(ss[i]))}
    IN  IF valid = {} THEN Null
        ELSE Some([site |-> ss[CHOOSE i \in valid : \A j \in valid : i <= j],
                   distanceKm |-> 0])

\* a search in which a later site at the same distance replaces the best
RECURSIVE NearestFromLast(_, _, _, _)
NearestFromLast(nfoLoc, ss, i, best) ==
    IF i > Len(ss) THEN best
    ELSE IF ~hasValidLocation(SiteLoc(ss[i])) THEN NearestFromLast(nfoLoc, ss, i + 1, best)
    ELSE LET d == calculateDistanceKm(nfoLoc, SiteLoc(ss[i]))
         IN  IF best = Null \/ d <= Val(best).distanceKm
             THEN NearestFromLast(nfoLoc, ss, i + 1, Some([site |-> ss[i], distanceKm |-> d]))
             ELSE NearestFromLast(nfoLoc, ss, i + 1, best)

findNearestSiteLastWins(nfoLoc, ss) ==
    IF ~hasValidLocation(nfoLoc) THEN Null ELSE NearestFromLast(nfoLoc, ss, 1, Null)

findNearestSite(nfoLoc, ss) ==
    IF ~hasValidLocation(nfoLoc) THEN Null ELSE NearestFrom(nfoLoc, ss, 1, Null)

\* a label that prints every finite distance
formatDistanceLabelUnbounded(distanceKm) ==
    IF ~isFinite(distanceKm) THEN <<"N/A">>
    ELSE toFixed2(distanceKm.v) \o <<" km">>

formatDistanceLabel(distanceKm) ==
    IF ~isFinite(distanceKm) THEN <<"N/A">>
    ELSE IF distanceKm.v > 200 * 1000 THEN <<">200 km (check site GPS or NFO GPS)">>
    ELSE toFixed2(distanceKm.v) \o <<" km">>

\* sites.find(...) || null on the normalized id
getSiteById(ss, siteId) ==
    IF siteId = Null \/ Val(siteId) = <<>> THEN Null
    ELSE LET normalizedId == toLowerCase(trim(Val(siteId)))
             hits == {i \in 1..Len(ss) :
                        /\ ss[i].site_id # <<>>
                        /\ toLowerCase(trim(ss[i].site_id)) = normalizedId}
         IN  IF hits = {} THEN Null
             ELSE Some(ss[CHOOSE i \in hits : \A j \in hits : i <= j])

\* the assignment classifier: busy and free from the status tag, on shift from
\* the shift flag
computeAssignmentState(n) ==
    [isBusy |-> n.status = "busy", isFree |-> n.status = "free",
     isOnShift |-> n.on_shift, isOffShift |-> ~n.on_shift]

----------------------------------------------------------------------------
(* app/page.tsx: enrichedNfos and FieldEngineerRow.handleRoute *)

namesMatch(a, b) ==
    IF a = <<>> \/ b = <<>> THEN FALSE
    ELSE toLowerCase(trim(a)) = toLowerCase(trim(b))

\* warehouses.find(w => namesMatch(w.name, name) && hasValidLocation(w))
FindWarehouse(whs, name) ==
    LET hits == {i \in 1..Len(whs) :
                   /\ namesMatch(whs[i].name, name)
                   /\ hasValidLocation(SiteLoc(whs[i]))}
    IN  IF hits = {} THEN Null
        ELSE Some(whs[CHOOSE i \in hits : \A j \in hits : i <= j])

\* the warehouse a row is routed through, in enrichedNfos and in handleRoute
matchingWarehouse(n, whs) ==
    LET warehouseNameTrimmed == trim(OrEmpty(n.warehouse_name))
    IN  IF n.via_warehouse /\ warehouseNameTrimmed # <<>>
        THEN FindWarehouse(whs, warehouseNameTrimmed)
        ELSE Null

\* a resolution that passes over an assigned site without coordinates
enrichedTargetSiteWithCoords(n, ss, nearest) ==
    LET assigned == getSiteById(ss, Some(trim(OrEmpty(n.site_id))))
    IN  IF assigned # Null /\ hasValidLocation(SiteLoc(Val(assigned))) THEN assigned
        ELSE IF nearest # Null THEN Some(Val(nearest).site)
        ELSE Null

\* enrichedNfos: the target site of the air distance
enrichedTargetSite(n, ss, nearest) ==
    LET assignedSiteId == trim(OrEmpty(n.site_id))
        assigned == IF assignedSiteId # <<>> THEN getSiteById(ss, Some(assignedSiteId))
                    ELSE Null
    IN  IF assigned = Null /\ nearest # Null THEN Some(Val(nearest).site)
        ELSE assigned

\* one row of enrichedNfos
enrichedNfos(n, ss, whs) ==
    LET state == computeAssignmentState(n)
        nfoLoc == [lat |-> n.lat, lng |-> n.lng]
        hasValidNfoCoords == hasValidLocation(nfoLoc)
        assignedSiteId == trim(OrEmpty(n.site_id))
        assignedSite == getSiteById(ss, Some(assignedSiteId))
        distanceToAssignedSiteKm ==
            IF /\ assignedSiteId # <<>> /\ hasValidNfoCoords
               /\ assignedSite # Null
               /\ hasValidLocation(SiteLoc(Val(assignedSite)))
            THEN Num(calculateDistanceKm(nfoLoc, SiteLoc(Val(assignedSite))))
            ELSE NullNum
        nearest == findNearestSite(nfoLoc, ss)
        distanceLabel ==
            IF nearest # Null THEN formatDistanceLabel(Num(Val(nearest).distanceKm))
            ELSE <<"N/A">>
        siteLabel ==
            IF nearest # Null
            THEN IF state.isBusy /\ assignedSiteId # <<>>
                 THEN <<"Busy at site ">> \o assignedSiteId \o <<" - ">>
                        \o (IF distanceToAssignedSiteKm.k # "null"
                            THEN formatDistanceLabel(distanceToAssignedSiteKm)
                            ELSE <<"N/A">>)
                 ELSE IF state.isFree /\ n.on_shift
                 THEN <<"Free near site ">> \o Val(nearest).site.site_id \o <<" - ">>
                        \o distanceLabel
                 ELSE <<"Nearest site ">> \o Val(nearest).site.site_id \o <<" - ">>
                        \o distanceLabel
            ELSE IF ~hasValidLocation(nfoLoc) THEN <<"No GPS">>
            ELSE IF state.isBusy /\ assignedSiteId # <<>>
            THEN <<"Busy at site ">> \o assignedSiteId \o <<" - N/A (missing coordinates)">>
            ELSE <<"N/A">>
        targetSite == enrichedTargetSite(n, ss, nearest)
        wh == matchingWarehouse(n, whs)
        airDistanceKm ==
            IF /\ hasValidNfoCoords
               /\ targetSite # Null
               /\ hasValidLocation(SiteLoc(Val(targetSite)))
            THEN LET sitePoint == SiteLoc(Val(targetSite))
                 IN  IF wh # Null
                     THEN Num(calculateDistanceKm(nfoLoc, SiteLoc(Val(wh)))
                              + calculateDistanceKm(SiteLoc(Val(wh)), sitePoint))
                     ELSE Num(calculateDistanceKm(nfoLoc, sitePoint))
            ELSE NullNum
    IN  [lat |-> n.lat, lng |-> n.lng, site_id |-> n.site_id,
         via_warehouse |-> n.via_warehouse, warehouse_name |-> n.warehouse_name,
         nearestSiteId |-> IF nearest # Null THEN Some(Val(nearest).site.site_id) ELSE Null,
         nearestSiteDistanceKm |-> IF nearest # Null THEN Num(Val(nearest).distanceKm)
                                   ELSE NullNum,
         distanceToAssignedSiteKm |-> distanceToAssignedSiteKm,
         airDistanceKm |-> airDistanceKm,
         distanceLabel |-> distanceLabel, siteLabel |-> siteLabel,
         isBusy |-> state.isBusy, isFree |-> state.isFree,
         isOnShift |-> state.isOnShift, isOffShift |-> state.isOffShift]

\* a Route click that does not look at the engineer's own coordinates
handleRouteWithoutGpsCheck(e, ss, whs) ==
    LET assignedSiteId == trim(OrEmpty(e.site_id))
        assigned == IF assignedSiteId # <<>> THEN getSiteById(ss, Some(assignedSiteId))
                    ELSE Null
        targetSite ==
            IF assigned = Null /\ e.nearestSiteId # Null /\ Val(e.nearestSiteId) # <<>>
            THEN getSiteById(ss, e.nearestSiteId)
            ELSE assigned
        wh == matchingWarehouse(e, whs)
    IN  IF targetSite = Null \/ ~hasValidLocation(SiteLoc(Val(targetSite)))
        THEN [routeError |-> Some(<<"No valid destination site">>), target |-> Null,
              warehouse |-> Null, request |-> "none"]
        ELSE [routeError |-> Null, target |-> targetSite, warehouse |-> wh,
              request |-> IF wh # Null THEN "via" ELSE "direct"]

\* handleRoute up to the call into lib/routing: the error it throws, or the
\* site and warehouse it routes to
handleRoute(e, ss, whs) ==
    LET none == [routeError |-> Null, target |-> Null, warehouse |-> Null,
                 request |-> "none"]
        assignedSiteId == trim(OrEmpty(e.site_id))
        assigned == IF assignedSiteId # <<>> THEN getSiteById(ss, Some(assignedSiteId))
                    ELSE Null
        targetSite ==
            IF assigned = Null /\ e.nearestSiteId # Null /\ Val(e.nearestSiteId) # <<>>
            THEN getSiteById(ss, e.nearestSiteId)
            ELSE assigned
        wh == matchingWarehouse(e, whs)
    IN  IF ~hasValidLocation([lat |-> e.lat, lng |-> e.lng])
        THEN [none EXCEPT !.routeError = Some(<<"NFO has no GPS">>)]
        ELSE IF targetSite = Null \/ ~hasValidLocation(SiteLoc(Val(targetSite)))
        THEN [none EXCEPT !.routeError = Some(<<"No valid destination site">>)]
        ELSE [routeError |-> Null, target |-> targetSite, warehouse |-> wh,
              request |-> IF wh # Null THEN "via" ELSE "direct"]

----------------------------------------------------------------------------
(* Route slots: the state each component keeps for its route request *)

\* the table rows (one FieldEngineerRow per username)
Rows == {"nfo1", "nfo2"}

\* Route clicks followed per slot
MaxClicks == 2

\* FieldEngineerRow: useState initial values
IdleRow == [routeResult |-> Null, routeLoading |-> FALSE, routeError |-> Null]

\* HomePage.routePlannerState without routeResult: nothing selected or typed
EmptySelection ==
    [selectedSiteId |-> "", selectedWarehouseId |-> "", selectedNfoUsername |-> "",
     siteSearch |-> "", nfoSearch |-> ""]

\* an engineer and a site with coordinates are selected
ValidSelection ==
    [EmptySelection EXCEPT !.selectedSiteId = "S1", !.selectedNfoUsername = "nfo1"]

\* RoutePlanner: useState initial values, nothing selected
IdlePlanner ==
    [canRoute |-> FALSE, routeResult |-> Null, routeLoading |-> FALSE,
     routeError |-> Null, routeWarning |-> Null, selection |-> EmptySelection]

NoClicks == [clicks |-> 0, requests |-> 0]

IdleRows ==
    /\ fieldEngineerRow = [r \in Rows |-> IdleRow]
    /\ rowPending = [r \in Rows |-> {}]
    /\ rowCount = [r \in Rows |-> NoClicks]
    /\ routePlanner = IdlePlanner
    /\ plannerPending = {}
    /\ plannerCount = NoClicks

\* the engineers listed in the Live Map's closest-NFO panel and in the
\* routes view's selector
Usernames == {"nfo1", "nfo2"}

\* Live Map: useState initial values
IdleLiveMap ==
    [selectedSiteFromSearch |-> Null, activeRoute |-> Null, routeLoading |-> Null,
     routeError |-> Null]

\* NFO routes view: useState initial values; routeCoords 0 is the empty
\* array, routeCoords i the geometry the backend returned to request i
IdleRoutesView ==
    [selectedUsername |-> Null, routeCoords |-> 0, loadingRoute |-> FALSE,
     error |-> Null]

NoRequest == [request |-> 0, username |-> "", outcome |-> "none"]

IdleSlots ==
    /\ liveMap = IdleLiveMap
    /\ livePending = {}
    /\ liveNewest = NoRequest
    /\ routesView = IdleRoutesView
    /\ viewPending = {}
    /\ viewNewest = NoRequest

\* HomePage: useState and useRef initial values; nfos, sites and warehouses
\* are tagged with the fetchDashboardData call that fetched them, lastRefresh
\* with the call that set it (0: none)
IdleDashboard ==
    /\ homePage = [nfos |-> [refresh |-> 0, rows |-> <<>>], sites |-> 0,
                   warehouses |-> 0, lastRefresh |-> 0, loading |-> TRUE,
                   error |-> Null, refreshError |-> Null, initialLoadComplete |-> FALSE]
    /\ loads = <<>>

\* no sites fetched, nothing selected
IdleSites == siteLookup = [sites |-> <<>>, selectedSiteId |-> Null]

\* no helper called yet
NoLookup ==
    [fn |-> "none", sites |-> <<>>, siteId |-> Null, nfoLoc |-> Null,
     found |-> Null, nearest |-> Null]
IdleLookup == lookup = NoLookup

\* no legs combined yet
IdleJoin == joined = [leg1 |-> <<>>, leg2 |-> <<>>, combined |-> Null]

\* no refresh has fetched sites yet
IdlePager ==
    pager = [table |-> <<>>, status |-> "idle", pageNumber |-> 0, allSiteRows |-> <<>>,
             requests |-> <<>>, sites |-> Null, refreshes |-> 0]

----------------------------------------------------------------------------
(* Enrichment inputs held fixed while a route request runs *)

IdleEnrich ==
    /\ nfo = Null /\ sites = <<>> /\ warehouses = <<>>
    /\ enriched = Null /\ rowPlan = Null
    /\ fmtIn = [k |-> "num", v |-> 0] /\ fmtOut = Null

Init ==
    /\ InitRoute /\ IdleEnrich /\ IdleRows /\ IdleSlots /\ IdleDashboard /\ IdleSites
    /\ IdleLookup /\ IdleJoin /\ IdlePager

Next ==
    \/ \E r \in DirectRequests : CallBestRoute(r)
    \/ \E r \in ViaRequests : CallRouteViaWarehouse(r)
    \/ \E resp \in EngineResponses(LegAir(req, leg),
                                    OrsPath(<<LegStart(req, leg), LegEnd(req, leg)>>)) :
           OrsResolves(resp)
    \/ \E resp \in EngineResponses(LegAir(req, leg),
                                    OsrmPath(LegStart(req, leg), LegEnd(req, leg))) :
           OsrmResolves(resp)
    \/ \E r \in PlannerRequests : PlannerFetchRoute(r)
    \/ \E a \in EngineAnswers(PlannerDirectKm(req), OrsPath(PlannerCoords(req))) :
           PlannerOrsResolves(a)
    \/ PlannerOrsThrows
    \/ \E a \in EngineAnswers(PlannerDirectKm(req), OsrmPath(req.nfo, req.site)) :
           PlannerOsrmResolves(a)

Spec == Init /\ [][Next]_vars

----------------------------------------------------------------------------
(* Properties of the route-engine selector *)

NLegs == IF req.wh # Null THEN 2 ELSE 1
LibDone == pc = "done" /\ mode \in {"direct", "via"}
LegacyStored == mode = "legacy" /\ pc = "done" /\ planner.routeResult # Null

\* the rule "A unless B is strictly shorter and B <= limit; B when A failed"
ChoiceOf(ors, osrm, limit) ==
    IF Usable(ors)
    THEN IF /\ Usable(osrm)
            /\ Val(osrm).distanceKm < Val(ors).distanceKm
            /\ Val(osrm).distanceKm <= limit
         THEN "osrm" ELSE "ors"
    ELSE IF Usable(osrm) THEN "osrm" ELSE "none"

\* distance, duration, path and label of the result r all come from answer a
\* of engine e
Picked(r, a, e) ==
    /\ ~r.isFallback /\ r.engine = e
    /\ r.distanceKm = Val(a).distanceKm
    /\ r.durationMin = Val(a).durationMin
    /\ r.coordinates = Val(Val(a).coordinates)

PlannerPicked(rr, a, e) ==
    /\ ~rr.isFallback /\ rr.engine = e
    /\ rr.distanceMeters = Val(a).distanceKm
    /\ rr.durationSeconds = Val(a).durationMin * 60
    /\ rr.coordinates = Val(Val(a).coordinates)

SelectionFollows(airOf(_)) ==
    /\ \A l \in 1..2 : legs[l] # Null =>
          LET c == ChoiceOf(orsResult[l], osrmResult[l],
                            ROUTE_SANITY_RATIO_THRESHOLD * airOf(LegAir(req, l)))
          IN  /\ c = "ors" => Picked(Val(legs[l]), orsResult[l], "ors")
              /\ c = "osrm" => Picked(Val(legs[l]), osrmResult[l], "osrm")
    /\ LegacyStored =>
          LET c == ChoiceOf(orsResult[1], osrmResult[1],
                            ROUTE_SANITY_RATIO_THRESHOLD * airOf(PlannerDirectKm(req)))
          IN  /\ c = "ors" => PlannerPicked(Val(planner.routeResult), orsResult[1], "ors")
              /\ c = "osrm" => PlannerPicked(Val(planner.routeResult), osrmResult[1], "osrm")

AsMeasured(airKm) == airKm
AtLeastMinAir(airKm) == Max2(airKm, MinAirKm)

\* C1 as stated: engine A's route is chosen unless engine B's is strictly
\* shorter and at most 2.0 times the air distance; when A failed and B
\* succeeded B is chosen; the chosen route's distance, duration, path and
\* engine label all come from the same engine.
C1_AsStated == SelectionFollows(AsMeasured)

\* C1: the same rule with the air distance taken as at least 0.001 km: engine
\* B replaces engine A exactly when it is strictly shorter and at most 2.0
\* times max(air distance, 0.001 km).
C1_Selection == SelectionFollows(AtLeastMinAir)

\* both engines answered, B is shorter and sits exactly at 2.0 x air: B won
C1_OsrmWinsAtThreshold ==
    /\ pc = "done" /\ mode = "direct"
    /\ Usable(orsResult[1]) /\ Usable(osrmResult[1])
    /\ LegAir(req, 1) > 0
    /\ Val(osrmResult[1]).distanceKm = ROUTE_SANITY_RATIO_THRESHOLD * LegAir(req, 1)
    /\ Val(osrmResult[1]).distanceKm < Val(orsResult[1]).distanceKm
    /\ Val(result).engine = "osrm"

Quotes(w, km, airKm) ==
    /\ Contains(w, toFixed1(km))
    /\ Contains(w, toFixed1(airKm))

\* C3 as stated: every non-fallback result, direct or via a warehouse, carries
\* a warning exactly when its distance exceeds 2.0 times its air distance, and
\* the warning quotes both distances.  (Requests over a real air distance.)
C3_AsStated ==
    (LibDone /\ ~Val(result).isFallback /\ Val(result).airDistanceKm >= MinAirKm) =>
        LET r == Val(result)
        IN  /\ r.warning # Null <=>
                  r.distanceKm > ROUTE_SANITY_RATIO_THRESHOLD * r.airDistanceKm
            /\ r.warning # Null => Quotes(Val(r.warning), r.distanceKm, r.airDistanceKm)

\* C3: a non-fallback direct result carries a warning exactly when its distance
\* exceeds 2.0 times max(air distance, 0.001 km), and the warning quotes both
\* distances.  A non-fallback via-warehouse result carries that warning when
\* its total exceeds 2.0 times max(direct air distance, 0.001 km); otherwise it
\* carries the warnings of its legs, joined, and none when neither leg has one.
C3_Warning ==
    (LibDone /\ ~Val(result).isFallback) =>
        LET r == Val(result)
            over == r.distanceKm >
                      ROUTE_SANITY_RATIO_THRESHOLD * Max2(r.airDistanceKm, MinAirKm)
        IN  /\ over => /\ r.warning # Null
                       /\ Quotes(Val(r.warning), r.distanceKm, r.airDistanceKm)
            /\ (~over /\ mode = "direct") => r.warning = Null
            /\ (~over /\ mode = "via") =>
                  LET w1 == Val(legs[1]).warning
                      w2 == Val(legs[2]).warning
                  IN  /\ r.warning # Null <=> (w1 # Null \/ w2 # Null)
                      /\ w1 # Null => Contains(Val(r.warning), Val(w1))
                      /\ w2 # Null => Contains(Val(r.warning), Val(w2))

\* a via-warehouse route within 2.0 x of the direct air distance that still
\* carries a warning, taken over from a leg
C3_InheritedLegWarning ==
    /\ pc = "done" /\ mode = "via"
    /\ ~Val(result).isFallback
    /\ Val(result).distanceKm <=
          ROUTE_SANITY_RATIO_THRESHOLD * Val(result).airDistanceKm
    /\ Val(result).warning # Null

C5_AsStated ==
    (pc = "done" /\ mode = "via") =>
        Val(result).airDistanceKm = LegAir(req, 1) + LegAir(req, 2)

\* C5: a via-warehouse result of lib/routing reports the direct engineer-to-
\* site air distance, and its sanity check compares the total with that
\* distance; the sum of the legs' air distances is the distance of the result
\* when both legs fell back, and the baseline of the Route Planner's own
\* fetchRoute.
C5_ViaAirDistance ==
    /\ (pc = "done" /\ mode = "via") =>
          LET r == Val(result)
              direct == haversineKm(req.nfo, req.site)
          IN  /\ r.airDistanceKm = direct
              /\ r.isFallback => r.distanceKm = LegAir(req, 1) + LegAir(req, 2)
              /\ (~r.isFallback /\ r.distanceKm >
                     ROUTE_SANITY_RATIO_THRESHOLD * Max2(direct, MinAirKm)) =>
                    r.warning = Some(SanityWarning(r.distanceKm, direct))
    /\ (LegacyStored /\ req.wh # Null) =>
          Val(planner.routeResult).directDistanceKm =
             haversineKm(req.nfo, Val(req.wh)) + haversineKm(Val(req.wh), req.site)

\* a via-warehouse result whose reported air distance is shorter than its legs'
C5_DirectShorterThanLegs ==
    /\ pc = "done" /\ mode = "via"
    /\ Val(result).airDistanceKm < LegAir(req, 1) + LegAir(req, 2)

\* the leg's result was produced by the primary engine
ProducedByPrimary(l) ==
    /\ Usable(orsResult[l])
    /\ ~Val(legs[l]).isFallback
    /\ Val(legs[l]).engine = "ors"

\* C6: a via-warehouse route's combined engine label is "ors" exactly when
\* both legs' results were produced by the primary engine, and "osrm" in every
\* other case.
C6_CombinedEngine ==
    (pc = "done" /\ mode = "via" /\ ~Val(result).isFallback) =>
        /\ Val(result).engine \in {"ors", "osrm"}
        /\ Val(result).engine = "ors" <=> (\A l \in 1..2 : ProducedByPrimary(l))

----------------------------------------------------------------------------
(* The enrichment pipeline: one refresh of the data, one click on Route *)

MaxSites == 2
MaxWarehouses == 1

SiteAt(id, p) == [site_id |-> id, latitude |-> Num(p[2]), longitude |-> Num(p[1])]

SampleSites ==
    { SiteAt(<<"S", "1">>, NearPos),
      SiteAt(<<"S", "2">>, FarPos),
      [site_id |-> <<"s", "1", " ">>, latitude |-> Num(NearPos[2]), longitude |-> NullNum] }

SampleWarehouses ==
    { [name |-> <<"W", "H">>, is_active |-> TRUE,
       latitude |-> Num(WhPos[2]), longitude |-> Num(WhPos[1])],
      [name |-> <<"W", "h", " ">>, is_active |-> FALSE,
       latitude |-> Num(WhPos[2]), longitude |-> Num(WhPos[1])],
      [name |-> <<"W", "H">>, is_active |-> TRUE,
       latitude |-> NullNum, longitude |-> NullNum],
      [name |-> <<"X", "X">>, is_active |-> TRUE,
       latitude |-> Num(WhPos[2]), longitude |-> Num(WhPos[1])] }

ListsOf(S, n) == UNION {[1..k -> S] : k \in 0..n}
SiteLists == ListsOf(SampleSites, MaxSites)
WarehouseLists == ListsOf(SampleWarehouses, MaxWarehouses)

SampleNfos ==
    { n \in [status : {"busy", "free"},
             on_shift : BOOLEAN,
             site_id : {Null, Some(<<"S", "1">>), Some(<<" ", "s", "2", " ">>),
                        Some(<<"S", "9">>)},
             lat : {Num(NfoPos[2])}, lng : {Num(NfoPos[1]), NullNum},
             via_warehouse : BOOLEAN,
             warehouse_name : {Null, Some(<<" ", "w", "h">>)}] :
        /\ n.status = "busy" => n.on_shift
        /\ n.warehouse_name = Null => n.via_warehouse }

FormatInputs ==
    {NaN, Infinity, NullNum,
     Num(0), Num(12340), Num(200000), Num(200001), Num(350000), Num(1000000)}

\* enrichedNfos = useMemo(..., [nfos, sites, warehouses])
Recomputed(n, ss, whs) ==
    IF n = Null THEN Null ELSE Some(enrichedNfos(Val(n), ss, whs))

\* loadData stores the sites; enrichedNfos is recomputed
SetSites(ss) ==
    /\ sites = <<>> /\ rowPlan = Null /\ fmtOut = Null
    /\ sites' = ss
    /\ enriched' = Recomputed(nfo, ss, warehouses)
    /\ UNCHANGED <<nfo, warehouses, rowPlan, fmtIn, fmtOut>>
    /\ UNCHANGED <<routeVars, rowVars, slotVars, dashVars, siteVars, joinVars, pageVars>>

\* loadData stores the warehouses, active or not; enrichedNfos is recomputed
SetWarehouses(whs) ==
    /\ warehouses = <<>> /\ rowPlan = Null /\ fmtOut = Null
    /\ warehouses' = whs
    /\ enriched' = Recomputed(nfo, sites, whs)
    /\ UNCHANGED <<nfo, sites, rowPlan, fmtIn, fmtOut>>
    /\ UNCHANGED <<routeVars, rowVars, slotVars, dashVars, siteVars, joinVars, pageVars>>

\* loadData stores the engineer rows; enrichedNfos is recomputed
SetNfos(n) ==
    /\ nfo = Null /\ fmtOut = Null
    /\ nfo' = Some(n)
    /\ enriched' = Recomputed(Some(n), sites, warehouses)
    /\ UNCHANGED <<sites, warehouses, rowPlan, fmtIn, fmtOut>>
    /\ UNCHANGED <<routeVars, rowVars, slotVars, dashVars, siteVars, joinVars, pageVars>>

\* the Route button of the row is clicked
HandleRoute ==
    /\ enriched # Null /\ rowPlan = Null
    /\ rowPlan' = Some(handleRoute(Val(enriched), sites, warehouses))
    /\ UNCHANGED <<nfo, sites, warehouses, enriched, fmtIn, fmtOut>>
    /\ UNCHANGED <<routeVars, rowVars, slotVars, dashVars, siteVars, joinVars, pageVars>>

\* formatDistanceLabel is applied to a number
FormatDistance(x) ==
    /\ nfo = Null /\ sites = <<>> /\ warehouses = <<>> /\ fmtOut = Null
    /\ fmtIn' = x
    /\ fmtOut' = Some(formatDistanceLabel(x))
    /\ UNCHANGED <<nfo, sites, warehouses, enriched, rowPlan>>
    /\ UNCHANGED <<routeVars, rowVars, slotVars, dashVars, siteVars, joinVars, pageVars>>

NextEnrich ==
    \/ \E ss \in SiteLists : SetSites(ss)
    \/ \E whs \in WarehouseLists : SetWarehouses(whs)
    \/ \E n \in SampleNfos : SetNfos(n)
    \/ HandleRoute
    \/ \E x \in FormatInputs : FormatDistance(x)

SpecEnrich == Init /\ [][NextEnrich]_vars

----------------------------------------------------------------------------
(* Properties of the enrichment pipeline *)

\* C7: formatDistanceLabel returns "N/A" for a non-finite input and, for every
\* finite input of any magnitude, the number with two decimals followed by
\* " km"; no value above 200 km is replaced by a threshold or warning string.
C7_FormatDistanceLabel ==
    fmtOut # Null =>
        Val(fmtOut) = (IF isFinite(fmtIn) THEN toFixed2(fmtIn.v) \o <<" km">>
                       ELSE <<"N/A">>)

NormId(id) == toLowerCase(trim(id))
TheNfo == Val(nfo)
NfoLoc == [lat |-> TheNfo.lat, lng |-> TheNfo.lng]
AssignedId == trim(OrEmpty(TheNfo.site_id))
\* the sites the assigned id names, in list order
AssignedMatches ==
    {i \in 1..Len(sites) : AssignedId # <<>> /\ NormId(sites[i].site_id) = NormId(AssignedId)}
FirstOf(I) == CHOOSE i \in I : \A j \in I : i <= j
ValidSites == {i \in 1..Len(sites) : hasValidLocation(SiteLoc(sites[i]))}
DistTo(i) == calculateDistanceKm(NfoLoc, SiteLoc(sites[i]))
\* a site with valid coordinates than which none is closer
NearestSites == {i \in ValidSites : \A j \in ValidSites : DistTo(i) <= DistTo(j)}

\* C8: for a busy engineer with valid coordinates whose assigned site S
\* resolves to a site with valid coordinates, enrichment sets the distance to
\* the engineer-to-S air distance whatever its magnitude and the site label
\* contains "Busy at site S" together with the formatted numeric distance.
C8_BusyAtAssignedSite ==
    (/\ enriched # Null
     /\ TheNfo.status = "busy"
     /\ hasValidLocation(NfoLoc)
     /\ AssignedMatches # {}
     /\ FirstOf(AssignedMatches) \in ValidSites) =>
        LET d == DistTo(FirstOf(AssignedMatches))
            e == Val(enriched)
        IN  /\ e.distanceToAssignedSiteKm = Num(d)
            /\ ~TheNfo.via_warehouse => e.airDistanceKm = Num(d)
            /\ Contains(e.siteLabel, <<"Busy at site ">> \o AssignedId)
            /\ Contains(e.siteLabel, toFixed2(d) \o <<" km">>)

ValidWarehouses ==
    {i \in 1..Len(warehouses) : hasValidLocation(SiteLoc(warehouses[i]))}
\* engineer to warehouse plus warehouse to site
LegSum(w, t) ==
    calculateDistanceKm(NfoLoc, SiteLoc(w)) + calculateDistanceKm(SiteLoc(w), SiteLoc(t))
\* the air distances to the site t: direct, or through a warehouse
AirValues(t) ==
    {calculateDistanceKm(NfoLoc, SiteLoc(t))}
        \cup {LegSum(warehouses[i], t) : i \in ValidWarehouses}
NoGps == Some(<<"NFO has no GPS">>)
NoDestination == Some(<<"No valid destination site">>)
\* the first site of the list that carries the id of site i
FirstWithIdOf(i) ==
    sites[FirstOf({j \in 1..Len(sites) :
                      NormId(sites[j].site_id) = NormId(sites[i].site_id)})]

\* C9 as stated: when the assigned site id does not resolve, or resolves to a
\* site without valid coordinates, the target falls back to the nearest site
\* with valid coordinates, in enrichment and in the row's Route request; hence
\* the air distance is non-null whenever the engineer and at least one site
\* have valid coordinates.
C9_AsStated ==
    (enriched # Null /\ hasValidLocation(NfoLoc) /\ ValidSites # {}) =>
        /\ Val(enriched).airDistanceKm.k = "num"
        /\ (AssignedMatches = {} \/ FirstOf(AssignedMatches) \notin ValidSites) =>
              /\ \E i \in NearestSites :
                    Val(enriched).airDistanceKm.v \in AirValues(sites[i])
              /\ rowPlan # Null =>
                    /\ Val(rowPlan).routeError = Null
                    /\ \E i \in NearestSites : Val(rowPlan).target = Some(sites[i])

\* C9: the target is the first site the assigned id names, whether or not it
\* has valid coordinates; only when the id is empty or names no site does the
\* target fall back to the nearest site with valid coordinates (in the Route
\* request: to the first site carrying the nearest site's id).  The air
\* distance is null, and the Route request fails with "No valid destination
\* site", when the target has no valid coordinates or there is no target; an
\* engineer without valid coordinates has a null air distance and the request
\* fails with "NFO has no GPS".
C9_TargetResolution ==
    /\ enriched # Null =>
          LET air == Val(enriched).airDistanceKm
          IN  IF ~hasValidLocation(NfoLoc) THEN air = NullNum
              ELSE IF AssignedMatches # {}
              THEN LET r == FirstOf(AssignedMatches)
                   IN  IF r \in ValidSites
                       THEN air.k = "num" /\ air.v \in AirValues(sites[r])
                       ELSE air = NullNum
              ELSE IF ValidSites = {} THEN air = NullNum
              ELSE /\ air.k = "num"
                   /\ \E i \in NearestSites : air.v \in AirValues(sites[i])
    /\ rowPlan # Null =>
          LET p == Val(rowPlan)
          IN  IF ~hasValidLocation(NfoLoc) THEN p.routeError = NoGps
              ELSE IF AssignedMatches # {}
              THEN LET r == FirstOf(AssignedMatches)
                   IN  IF r \in ValidSites
                       THEN p.routeError = Null /\ p.target = Some(sites[r])
                       ELSE p.routeError = NoDestination
              ELSE IF ValidSites = {} THEN p.routeError = NoDestination
              ELSE \E i \in NearestSites :
                      IF hasValidLocation(SiteLoc(FirstWithIdOf(i)))
                      THEN p.routeError = Null /\ p.target = Some(FirstWithIdOf(i))
                      ELSE p.routeError = NoDestination

\* the assigned id names a site without coordinates while another site has
\* them: no air distance, and the Route request is refused
C9_AssignedSiteWithoutCoordinates ==
    /\ enriched # Null /\ rowPlan # Null
    /\ hasValidLocation(NfoLoc)
    /\ AssignedMatches # {} /\ FirstOf(AssignedMatches) \notin ValidSites
    /\ ValidSites # {}
    /\ Val(enriched).airDistanceKm = NullNum
    /\ Val(rowPlan).routeError = NoDestination

\* the warehouses the claim lets contribute: flag set, active, valid
\* coordinates, name equal after trimming and lower-casing
EligibleWarehouses ==
    {i \in ValidWarehouses :
        /\ TheNfo.via_warehouse
        /\ warehouses[i].is_active
        /\ NormId(warehouses[i].name) = NormId(OrEmpty(TheNfo.warehouse_name))}
\* the site the distance is measured to
TargetIndex ==
    IF AssignedMatches # {} THEN FirstOf(AssignedMatches) ELSE FirstOf(NearestSites)

\* C10: a warehouse contributes a via-waypoint to the air distance or the
\* route only if the via-warehouse flag is set, the warehouse is active, has
\* valid coordinates and its name equals the engineer's warehouse name after
\* trimming and lower-casing; the distance is then the sum of the two legs; an
\* inactive warehouse never contributes a leg.
C10_WarehouseContribution ==
    /\ (enriched # Null /\ Val(enriched).airDistanceKm.k = "num") =>
          LET air == Val(enriched).airDistanceKm.v
              t == sites[TargetIndex]
          IN  IF EligibleWarehouses = {}
              THEN air = calculateDistanceKm(NfoLoc, SiteLoc(t))
              ELSE \E i \in EligibleWarehouses : air = LegSum(warehouses[i], t)
    /\ (rowPlan # Null /\ Val(rowPlan).routeError = Null) =>
          LET p == Val(rowPlan)
          IN  /\ p.request = "via" <=> EligibleWarehouses # {}
              /\ p.warehouse # Null =>
                    \E i \in EligibleWarehouses : Val(p.warehouse) = warehouses[i]

\* the label says that coordinates are missing
StatesMissingCoordinates(label) ==
    \E i \in 1..Len(label) : label[i] = " - N/A (missing coordinates)"

\* C11: for a busy engineer with valid coordinates whose assigned site exists
\* in the site list but has null coordinates, enrichment yields a null distance
\* to the assigned site and a label that states "missing coordinates", whether
\* or not other sites in the list have valid coordinates.
C11_MissingCoordinates ==
    (/\ enriched # Null
     /\ TheNfo.status = "busy"
     /\ hasValidLocation(NfoLoc)
     /\ AssignedMatches # {}
     /\ FirstOf(AssignedMatches) \notin ValidSites) =>
        /\ Val(enriched).distanceToAssignedSiteKm = NullNum
        /\ StatesMissingCoordinates(Val(enriched).siteLabel)

\* C12: for an engineer whose own coordinates are not valid, enrichment yields
\* null for the nearest-site distance, the assigned-site distance and the air
\* distance, no nearest site, and the label "No GPS", whatever the status, the
\* shift flag, the assigned site id and the warehouse flag.
C12_NoGps ==
    (enriched # Null /\ ~hasValidLocation(NfoLoc)) =>
        LET e == Val(enriched)
        IN  /\ e.nearestSiteDistanceKm = NullNum
            /\ e.distanceToAssignedSiteKm = NullNum
            /\ e.airDistanceKm = NullNum
            /\ e.nearestSiteId = Null
            /\ e.distanceLabel = <<"N/A">>
            /\ e.siteLabel = <<"No GPS">>

\* a busy engineer without coordinates, assigned to a site that has them, with
\* the warehouse flag set and a matching warehouse loaded
C12_BusyWithoutGps ==
    /\ enriched # Null /\ ~hasValidLocation(NfoLoc)
    /\ TheNfo.status = "busy" /\ TheNfo.via_warehouse
    /\ AssignedMatches # {} /\ FirstOf(AssignedMatches) \in ValidSites
    /\ EligibleWarehouses # {}
    /\ Val(enriched).siteLabel = <<"No GPS">>

----------------------------------------------------------------------------
(* FieldEngineerRow and RoutePlanner: the Route and Clear buttons *)

\* what lib/routing resolves to: a routed result or the straight-line fallback
LibraryResults ==
    {[distanceKm |-> 15186, durationMin |-> 21, isFallback |-> FALSE,
      engine |-> Some("ors"), warning |-> Null],
     [distanceKm |-> 12655, durationMin |-> 0, isFallback |-> TRUE,
      engine |-> Null, warning |-> Some(<<"Routing engines unavailable">>)]}

\* what handleRoute throws before it calls the library, if anything
RowThrows == {Null, Some(<<"NFO has no GPS">>), Some(<<"No valid destination site">>)}

\* the Route button is disabled while the slot is loading
RouteButtonEnabled(s) == ~s.routeLoading

\* the row's Clear button is rendered once there is a result or an error
ClearButtonShown(s) == s.routeResult # Null \/ s.routeError # Null

\* every row writes the one slot
SetEveryRow(rows, r, s) == [q \in DOMAIN rows |-> s]

\* each FieldEngineerRow holds its own useState slot
SetRow(rows, r, s) == [rows EXCEPT ![r] = s]

\* the Route button of row r: the state is cleared, and the handler either
\* throws before the library is called or awaits the library
RowHandleRoute(r, thrown) ==
    /\ RouteButtonEnabled(fieldEngineerRow[r])
    /\ rowCount[r].clicks < MaxClicks
    /\ IF thrown # Null
       THEN /\ fieldEngineerRow' =
                   SetRow(fieldEngineerRow, r,
                          [routeResult |-> Null, routeLoading |-> FALSE,
                           routeError |-> thrown])
            /\ rowCount' = [rowCount EXCEPT ![r].clicks = @ + 1]
            /\ UNCHANGED rowPending
       ELSE /\ fieldEngineerRow' =
                   SetRow(fieldEngineerRow, r,
                          [routeResult |-> Null, routeLoading |-> TRUE,
                           routeError |-> Null])
            /\ rowPending' = [rowPending EXCEPT ![r] = @ \cup {rowCount[r].clicks + 1}]
            /\ rowCount' = [rowCount EXCEPT ![r] = [clicks |-> @.clicks + 1,
                                                    requests |-> @.requests + 1]]
    /\ UNCHANGED <<routePlanner, plannerPending, plannerCount>>
    /\ UNCHANGED <<routeVars, enrichVars, slotVars, dashVars, siteVars, joinVars, pageVars>>

\* the library resolves call i of row r: the result is stored, loading ends
RowRouteResolves(r, i, res) ==
    /\ i \in rowPending[r]
    /\ fieldEngineerRow' =
           SetRow(fieldEngineerRow, r,
                  [fieldEngineerRow[r] EXCEPT
                      !.routeResult =
                          Some([distanceKm |-> res.distanceKm,
                                durationMin |-> IF res.isFallback THEN NullNum
                                                ELSE Num(res.durationMin),
                                viaWarehouse |-> FALSE,
                                isFallback |-> res.isFallback,
                                engine |-> res.engine,
                                warning |-> res.warning]),
                      !.routeLoading = FALSE])
    /\ rowPending' = [rowPending EXCEPT ![r] = @ \ {i}]
    /\ UNCHANGED <<rowCount, routePlanner, plannerPending, plannerCount>>
    /\ UNCHANGED <<routeVars, enrichVars, slotVars, dashVars, siteVars, joinVars, pageVars>>

\* the Clear button of row r
RowHandleClear(r) ==
    /\ ClearButtonShown(fieldEngineerRow[r])
    /\ fieldEngineerRow' =
           SetRow(fieldEngineerRow, r,
                  [fieldEngineerRow[r] EXCEPT !.routeResult = Null,
                                              !.routeError = Null])
    /\ UNCHANGED <<rowPending, rowCount, routePlanner, plannerPending, plannerCount>>
    /\ UNCHANGED <<routeVars, enrichVars, slotVars, dashVars, siteVars, joinVars, pageVars>>

\* Route Planner: an engineer and a site with coordinates are selected
RoutePlannerSelect ==
    /\ ~routePlanner.canRoute
    /\ routePlanner' = [routePlanner EXCEPT !.canRoute = TRUE,
                                            !.selection = ValidSelection]
    /\ UNCHANGED <<fieldEngineerRow, rowPending, rowCount, plannerPending, plannerCount>>
    /\ UNCHANGED <<routeVars, enrichVars, slotVars, dashVars, siteVars, joinVars, pageVars>>

\* Route Planner: the Route button
RoutePlannerFetchRoute ==
    /\ routePlanner.canRoute /\ RouteButtonEnabled(routePlanner)
    /\ plannerCount.clicks < MaxClicks
    /\ routePlanner' = [routePlanner EXCEPT !.routeLoading = TRUE,
                                            !.routeError = Null,
                                            !.routeWarning = Null,
                                            !.routeResult = Null]
    /\ plannerPending' = plannerPending \cup {[call |-> plannerCount.clicks + 1,
                                                mounted |-> TRUE,
                                                state |-> routePlanner.selection]}
    /\ plannerCount' = [clicks |-> plannerCount.clicks + 1,
                        requests |-> plannerCount.requests + 1]
    /\ UNCHANGED <<fieldEngineerRow, rowPending, rowCount>>
    /\ UNCHANGED <<routeVars, enrichVars, slotVars, dashVars, siteVars, joinVars, pageVars>>

\* Route Planner: the library resolves call c.  updateState writes to
\* HomePage the state captured at the click (a valid selection) with the
\* routeResult; setRouteWarning and setRouteLoading write the instance
\* that made the call, which may have been unmounted since
RoutePlannerRouteResolves(c, res) ==
    /\ c \in plannerPending
    /\ routePlanner' =
           [routePlanner EXCEPT
               !.canRoute = TRUE,
               !.selection = c.state,
               !.routeWarning = IF c.mounted THEN res.warning ELSE @,
               !.routeResult =
                   Some([distanceMeters |-> res.distanceKm,
                         durationSeconds |-> res.durationMin * 60,
                         viaWarehouse |-> FALSE,
                         isFallback |-> res.isFallback,
                         engine |-> res.engine]),
               !.routeLoading = IF c.mounted THEN FALSE ELSE @]
    /\ plannerPending' = plannerPending \ {c}
    /\ UNCHANGED <<fieldEngineerRow, rowPending, rowCount, plannerCount>>
    /\ UNCHANGED <<routeVars, enrichVars, slotVars, dashVars, siteVars, joinVars, pageVars>>

\* Route Planner: the Clear button, disabled while loading
RoutePlannerHandleClearRoute ==
    /\ ~routePlanner.routeLoading
    /\ routePlanner # IdlePlanner
    /\ routePlanner' = [routePlanner EXCEPT !.canRoute = FALSE,
                                            !.selection = EmptySelection,
                                            !.routeResult = Null,
                                            !.routeError = Null,
                                            !.routeWarning = Null]
    /\ UNCHANGED <<fieldEngineerRow, rowPending, rowCount, plannerPending, plannerCount>>
    /\ UNCHANGED <<routeVars, enrichVars, slotVars, dashVars, siteVars, joinVars, pageVars>>

\* the user leaves the Route Planner view and returns: the component is
\* mounted anew with its local state, HomePage keeps routePlannerState
RoutePlannerRemount ==
    /\ routePlanner' = [routePlanner EXCEPT !.routeLoading = FALSE,
                                            !.routeError = Null,
                                            !.routeWarning = Null]
    /\ plannerPending' = {[c EXCEPT !.mounted = FALSE] : c \in plannerPending}
    /\ UNCHANGED <<fieldEngineerRow, rowPending, rowCount, plannerCount>>
    /\ UNCHANGED <<routeVars, enrichVars, slotVars, dashVars, siteVars, joinVars, pageVars>>

NextRows ==
    \/ \E r \in Rows, thrown \in RowThrows : RowHandleRoute(r, thrown)
    \/ \E r \in Rows, i \in 1..MaxClicks, res \in LibraryResults :
           RowRouteResolves(r, i, res)
    \/ \E r \in Rows : RowHandleClear(r)
    \/ RoutePlannerSelect
    \/ RoutePlannerFetchRoute
    \/ \E c \in plannerPending, res \in LibraryResults : RoutePlannerRouteResolves(c, res)
    \/ RoutePlannerRemount
    \/ RoutePlannerHandleClearRoute

SpecRows == Init /\ [][NextRows]_vars

----------------------------------------------------------------------------
(* Route slots: claims *)

\* a slot never shows a result or an error while it is loading, and never both
SlotConsistent(s) ==
    /\ s.routeLoading => (s.routeResult = Null /\ s.routeError = Null)
    /\ ~(s.routeResult # Null /\ s.routeError # Null)

\* one step of a slot from s to t, its counters going from c to d
SlotStep(s, t, c, d) ==
    \* Route is invoked on a slot that is not loading
    /\ d.clicks # c.clicks => (~s.routeLoading /\ d.clicks = c.clicks + 1)
    \* a library request belongs to an invocation, and the slot is cleared
    /\ d.requests # c.requests =>
           /\ d.requests = c.requests + 1 /\ d.clicks = c.clicks + 1
           /\ t.routeLoading /\ t.routeResult = Null /\ t.routeError = Null
    \* loading begins with an invocation only
    /\ (~s.routeLoading /\ t.routeLoading) => d.clicks = c.clicks + 1
    \* when loading ends exactly one of result and error is set
    /\ (s.routeLoading /\ ~t.routeLoading) =>
           ((t.routeResult # Null) # (t.routeError # Null))
    \* a loading slot changes only by resolving
    /\ (s.routeLoading /\ t # s) => ~t.routeLoading

RowSlotsFollowCycle ==
    /\ [](\A r \in Rows : SlotConsistent(fieldEngineerRow[r]))
    /\ [][\A r \in Rows : SlotStep(fieldEngineerRow[r], fieldEngineerRow'[r],
                                   rowCount[r], rowCount'[r])]_vars

\* C13: every route slot (each table row's, the Route Planner's) follows
\* idle -> loading -> resolved: Route clears result and error before a
\* library request is made, result and error stay empty while loading,
\* exactly one of them is set when loading ends, and a library request is
\* made only by an invocation.
C13_RouteSlotCycle ==
    /\ RowSlotsFollowCycle
    /\ []SlotConsistent(routePlanner)
    /\ [][SlotStep(routePlanner, routePlanner', plannerCount, plannerCount')]_vars

\* an operation of row q has acted in this step
RowActs(q) ==
    \/ fieldEngineerRow'[q] # fieldEngineerRow[q]
    \/ rowCount'[q] # rowCount[q]
    \/ rowPending'[q] # rowPending[q]

\* C15: starting, resolving, failing or clearing the route of one table row
\* leaves the result, loading and error state of every other row unchanged,
\* whatever the order in which the rows' requests resolve.
C15_RowsIndependent ==
    [][\A q \in Rows : RowActs(q) =>
           \A r \in Rows \ {q} : fieldEngineerRow'[r] = fieldEngineerRow[r]]_vars

\* both rows are loading at once: the first row its second request, the
\* second row its only request after a click that threw
C15_BothInFlight ==
    /\ fieldEngineerRow["nfo1"].routeLoading /\ rowCount["nfo1"].requests = 2
    /\ fieldEngineerRow["nfo2"].routeLoading /\ rowCount["nfo2"].clicks = 2
    /\ rowCount["nfo2"].requests = 1

----------------------------------------------------------------------------
(* Live Map and NFO routes view: one route slot, requests not cancelled *)

\* the sites that can be picked on the Live Map, all with coordinates
LiveSites == {"S1", "S2"}

\* Live Map: a site is picked in the search box or on the map, or the
\* selection is closed; the effect on selectedSiteFromSearch clears the
\* route and its error
LiveSelectSite(site) ==
    /\ liveMap.selectedSiteFromSearch # site
    /\ liveMap' = [liveMap EXCEPT !.selectedSiteFromSearch = site,
                                  !.activeRoute = Null,
                                  !.routeError = Null]
    /\ liveNewest' = IF liveNewest.outcome \in {"route", "failed"}
                     THEN [liveNewest EXCEPT !.outcome = "cleared"]
                     ELSE liveNewest
    /\ UNCHANGED <<livePending, routesView, viewPending, viewNewest>>
    /\ UNCHANGED <<routeVars, enrichVars, rowVars, dashVars, siteVars, joinVars, pageVars>>

\* Live Map: the Route button of engineer u in the closest-NFO panel of the
\* selected site, disabled while that engineer's route is loading
LiveFetchRoute(u) ==
    /\ liveMap.selectedSiteFromSearch # Null
    /\ liveMap.routeLoading # Some(u)
    /\ liveNewest.request < MaxClicks
    /\ liveMap' = [liveMap EXCEPT !.activeRoute = Null, !.routeError = Null,
                                  !.routeLoading = Some(u)]
    /\ livePending' = livePending \cup {[request |-> liveNewest.request + 1,
                                          username |-> u,
                                          site |-> Val(liveMap.selectedSiteFromSearch)]}
    /\ liveNewest' = [request |-> liveNewest.request + 1, username |-> u,
                      outcome |-> "pending"]
    /\ UNCHANGED <<routesView, viewPending, viewNewest>>
    /\ UNCHANGED <<routeVars, enrichVars, rowVars, dashVars, siteVars, joinVars, pageVars>>

\* how request p ended, recorded when p is the newest request
Ended(newest, p, outcome) ==
    IF p.request = newest.request THEN [newest EXCEPT !.outcome = outcome]
    ELSE newest

\* Live Map: the backend answers request p with a route
LiveRouteResolves(p) ==
    /\ p \in livePending
    /\ liveMap' = [liveMap EXCEPT
                       !.activeRoute = Some([nfoUsername |-> p.username,
                                             coordinates |-> p.request,
                                             end |-> p.site]),
                       !.routeLoading = Null]
    /\ livePending' = livePending \ {p}
    /\ liveNewest' = Ended(liveNewest, p, "route")
    /\ UNCHANGED <<routesView, viewPending, viewNewest>>
    /\ UNCHANGED <<routeVars, enrichVars, rowVars, dashVars, siteVars, joinVars, pageVars>>

\* Live Map: request p fails (network error, HTTP status, no feature)
LiveRouteFails(p) ==
    /\ p \in livePending
    /\ liveMap' = [liveMap EXCEPT !.routeError = Some(<<"Route failed, try again">>),
                                  !.routeLoading = Null]
    /\ livePending' = livePending \ {p}
    /\ liveNewest' = Ended(liveNewest, p, "failed")
    /\ UNCHANGED <<routesView, viewPending, viewNewest>>
    /\ UNCHANGED <<routeVars, enrichVars, rowVars, dashVars, siteVars, joinVars, pageVars>>

\* what the routes view's effect finds for the selected pair
ViewTargets == {"routable", "no gps", "invalid site coordinates"}

\* NFO routes view: an engineer is selected (or nfos/sites are refreshed) and
\* the effect runs fetchRoute for the selected pair
ViewFetchRoute(u, target) ==
    /\ viewNewest.request < MaxClicks
    /\ IF target = "routable"
       THEN /\ routesView' = [routesView EXCEPT !.selectedUsername = Some(u),
                                                !.loadingRoute = TRUE,
                                                !.error = Null]
            /\ viewPending' = viewPending \cup {[request |-> viewNewest.request + 1,
                                                  username |-> u]}
            /\ viewNewest' = [request |-> viewNewest.request + 1, username |-> u,
                              outcome |-> "pending"]
       ELSE /\ routesView' =
                   [routesView EXCEPT
                       !.selectedUsername = Some(u),
                       !.routeCoords = 0,
                       !.error = IF target = "invalid site coordinates"
                                 THEN Some(<<"Invalid site coordinates">>) ELSE @]
            /\ viewNewest' = [request |-> viewNewest.request + 1, username |-> u,
                              outcome |-> "none"]
            /\ UNCHANGED viewPending
    /\ UNCHANGED <<liveMap, livePending, liveNewest>>
    /\ UNCHANGED <<routeVars, enrichVars, rowVars, dashVars, siteVars, joinVars, pageVars>>

\* NFO routes view: the backend answers request p with a route
ViewRouteResolves(p) ==
    /\ p \in viewPending
    /\ routesView' = [routesView EXCEPT !.routeCoords = p.request,
                                        !.loadingRoute = FALSE]
    /\ viewPending' = viewPending \ {p}
    /\ viewNewest' = Ended(viewNewest, p, "route")
    /\ UNCHANGED <<liveMap, livePending, liveNewest>>
    /\ UNCHANGED <<routeVars, enrichVars, rowVars, dashVars, siteVars, joinVars, pageVars>>

\* NFO routes view: the backend answers request p without a feature
ViewRouteEmpty(p) ==
    /\ p \in viewPending
    /\ routesView' = [routesView EXCEPT !.loadingRoute = FALSE]
    /\ viewPending' = viewPending \ {p}
    /\ viewNewest' = Ended(viewNewest, p, "none")
    /\ UNCHANGED <<liveMap, livePending, liveNewest>>
    /\ UNCHANGED <<routeVars, enrichVars, rowVars, dashVars, siteVars, joinVars, pageVars>>

\* NFO routes view: request p fails (network error, HTTP status)
ViewRouteFails(p) ==
    /\ p \in viewPending
    /\ routesView' = [routesView EXCEPT !.error = Some(<<"Route request failed">>),
                                        !.loadingRoute = FALSE]
    /\ viewPending' = viewPending \ {p}
    /\ viewNewest' = Ended(viewNewest, p, "failed")
    /\ UNCHANGED <<liveMap, livePending, liveNewest>>
    /\ UNCHANGED <<routeVars, enrichVars, rowVars, dashVars, siteVars, joinVars, pageVars>>

NextSlots ==
    \/ \E site \in {Null} \cup {Some(x) : x \in LiveSites} : LiveSelectSite(site)
    \/ \E u \in Usernames : LiveFetchRoute(u)
    \/ \E p \in livePending : LiveRouteResolves(p)
    \/ \E p \in livePending : LiveRouteFails(p)
    \/ \E u \in Usernames, target \in ViewTargets : ViewFetchRoute(u, target)
    \/ \E p \in viewPending : ViewRouteResolves(p)
    \/ \E p \in viewPending : ViewRouteEmpty(p)
    \/ \E p \in viewPending : ViewRouteFails(p)

SpecSlots == Init /\ [][NextSlots]_vars

\* with no request in flight the Live Map shows what its newest request produced
LiveMapShowsNewest ==
    (livePending = {} /\ liveNewest.outcome \in {"route", "failed"}) =>
        /\ liveMap.routeLoading = Null
        /\ IF liveNewest.outcome = "route"
           THEN /\ liveMap.activeRoute # Null
                /\ Val(liveMap.activeRoute).nfoUsername = liveNewest.username
                /\ Val(liveMap.activeRoute).coordinates = liveNewest.request
                /\ liveMap.routeError = Null
           ELSE /\ liveMap.activeRoute = Null
                /\ liveMap.routeError # Null

\* with no request in flight the routes view shows what its newest request produced
RoutesViewShowsNewest ==
    (viewPending = {} /\ viewNewest.outcome \in {"route", "failed"}) =>
        /\ ~routesView.loadingRoute
        /\ IF viewNewest.outcome = "route"
           THEN routesView.routeCoords = viewNewest.request /\ routesView.error = Null
           ELSE routesView.error # Null

\* C14: when a newer request for a slot (the Live Map's active route, the
\* routes view's route) starts while an older one is in flight, then after
\* both have resolved, in either order, the route, error and loading
\* indicator shown are those of the newer request.
C14_NewerRequestWins == LiveMapShowsNewest /\ RoutesViewShowsNewest

----------------------------------------------------------------------------
(* HomePage.fetchDashboardData: the initial load and the polling refreshes *)

\* fetchDashboardData calls followed
MaxLoads == 3

NfoStatusRow(u, t) == [username |-> u, last_active_at |-> t]

\* what the nfo_status query returns, newest last_active_at first
SampleFetches ==
    {<<>>,
     <<NfoStatusRow(Some(<<"a">>), 9)>>,
     <<NfoStatusRow(Some(<<"b">>), 8), NfoStatusRow(Some(<<"a">>), 7),
       NfoStatusRow(Some(<<"b">>), 6)>>,
     <<NfoStatusRow(Some(<<"a">>), 5), NfoStatusRow(Null, 4),
       NfoStatusRow(Some(<<"a">>), 3), NfoStatusRow(Some(<<>>), 2),
       NfoStatusRow(Some(<<"b">>), 1)>>}

\* each username keeps the row fetched last for it
latestByUserOverwriting(rows) ==
    LET has(u) == u # Null /\ Val(u) # <<>>
        last(k) == CHOOSE m \in k..Len(rows) :
                       /\ rows[m].username = rows[k].username
                       /\ \A n \in (m + 1)..Len(rows) : rows[n].username # rows[k].username
        kept[k \in 0..Len(rows)] ==
            IF k = 0 THEN <<>>
            ELSE IF /\ has(rows[k].username)
                    /\ \A m \in 1..(k - 1) : rows[m].username # rows[k].username
                 THEN Append(kept[k - 1], rows[last(k)])
                 ELSE kept[k - 1]
    IN  kept[Len(rows)]

\* the values of latestByUser, in insertion order: rows without a username
\* are skipped, a username already in the map keeps its row
latestByUser(rows) ==
    LET has(u) == u # Null /\ Val(u) # <<>>
        kept[k \in 0..Len(rows)] ==
            IF k = 0 THEN <<>>
            ELSE IF /\ has(rows[k].username)
                    /\ \A m \in 1..(k - 1) : rows[m].username # rows[k].username
                 THEN Append(kept[k - 1], rows[k])
                 ELSE kept[k - 1]
    IN  kept[Len(rows)]

\* every failed load shows the error screen
ShowsErrorScreenAlways(isInitialLoad, complete) == TRUE

\* the catch block shows the error screen rather than the refresh warning
ShowsErrorScreen(isInitialLoad, complete) == isInitialLoad \/ ~complete

NewLoad(isInitialLoad) ==
    [isInitialLoad |-> isInitialLoad, stage |-> "nfo_status", rows |-> <<>>]

\* the mount effect calls fetchDashboardData(true)
InitialLoad ==
    /\ loads = <<>>
    /\ loads' = <<NewLoad(TRUE)>>
    /\ homePage' = [homePage EXCEPT !.loading = TRUE, !.refreshError = Null]
    /\ UNCHANGED <<routeVars, enrichVars, rowVars, slotVars, siteVars, joinVars, pageVars>>

\* the interval calls fetchDashboardData(false)
PollingRefresh ==
    /\ Len(loads) \in 1..(MaxLoads - 1)
    /\ loads' = Append(loads, NewLoad(FALSE))
    /\ homePage' = [homePage EXCEPT !.refreshError = Null]
    /\ UNCHANGED <<routeVars, enrichVars, rowVars, slotVars, siteVars, joinVars, pageVars>>

\* call i receives the nfo_status rows
NfoStatusLoaded(i, rows) ==
    /\ i \in DOMAIN loads /\ loads[i].stage = "nfo_status"
    /\ loads' = [loads EXCEPT ![i].stage = "Site_Coordinates", ![i].rows = rows]
    /\ UNCHANGED homePage
    /\ UNCHANGED <<routeVars, enrichVars, rowVars, slotVars, siteVars, joinVars, pageVars>>

\* call i receives the last page of Site_Coordinates and calls setSites
SiteCoordinatesLoaded(i) ==
    /\ i \in DOMAIN loads /\ loads[i].stage = "Site_Coordinates"
    /\ loads' = [loads EXCEPT ![i].stage = "warehouses"]
    /\ homePage' = [homePage EXCEPT !.sites = i]
    /\ UNCHANGED <<routeVars, enrichVars, rowVars, slotVars, siteVars, joinVars, pageVars>>

\* call i receives the answer of the warehouses query and runs to its end
WarehousesLoaded(i, warehouseError) ==
    /\ i \in DOMAIN loads /\ loads[i].stage = "warehouses"
    /\ loads' = [loads EXCEPT ![i].stage = "done", ![i].rows = <<>>]
    /\ homePage' =
           [homePage EXCEPT
               !.warehouses = IF warehouseError THEN @ ELSE i,
               !.nfos = [refresh |-> i, rows |-> latestByUser(loads[i].rows)],
               !.lastRefresh = i,
               !.error = Null,
               !.initialLoadComplete = TRUE,
               !.loading = IF loads[i].isInitialLoad THEN FALSE ELSE @]
    /\ UNCHANGED <<routeVars, enrichVars, rowVars, slotVars, siteVars, joinVars, pageVars>>

\* the nfo_status query or a Site_Coordinates page of call i fails
LoadFails(i) ==
    /\ i \in DOMAIN loads /\ loads[i].stage \in {"nfo_status", "Site_Coordinates"}
    /\ loads' = [loads EXCEPT ![i].stage = "failed", ![i].rows = <<>>]
    /\ homePage' =
           LET errorMsg == Some(<<"Failed to fetch">>)
               shown == ShowsErrorScreen(loads[i].isInitialLoad,
                                         homePage.initialLoadComplete)
           IN  [homePage EXCEPT
                   !.error = IF shown THEN errorMsg ELSE @,
                   !.refreshError = IF shown THEN @ ELSE errorMsg,
                   !.loading = IF loads[i].isInitialLoad THEN FALSE ELSE @]
    /\ UNCHANGED <<routeVars, enrichVars, rowVars, slotVars, siteVars, joinVars, pageVars>>

NextDash ==
    \/ InitialLoad
    \/ PollingRefresh
    \/ \E i \in 1..MaxLoads, rows \in SampleFetches : NfoStatusLoaded(i, rows)
    \/ \E i \in 1..MaxLoads : SiteCoordinatesLoaded(i)
    \/ \E i \in 1..MaxLoads, warehouseError \in BOOLEAN : WarehousesLoaded(i, warehouseError)
    \/ \E i \in 1..MaxLoads : LoadFails(i)

SpecDash == Init /\ [][NextDash]_vars

----------------------------------------------------------------------------
(* Dashboard data: claims *)

\* call i throws in this step
Fails(i) == i \in DOMAIN loads /\ loads[i].stage # "failed" /\ loads'[i].stage = "failed"

\* call i reaches its end without throwing in this step
Completes(i) == i \in DOMAIN loads /\ loads[i].stage # "done" /\ loads'[i].stage = "done"

\* C16: once a load has succeeded, a polling refresh that fails leaves the
\* engineer rows, sites and warehouses as they are, sets the refresh-error
\* indicator and does not set the blocking error.
C16_FailedRefreshKeepsSnapshot ==
    [][\A i \in 1..MaxLoads :
          (Fails(i) /\ ~loads[i].isInitialLoad /\ homePage.initialLoadComplete) =>
              /\ homePage'.nfos = homePage.nfos
              /\ homePage'.sites = homePage.sites
              /\ homePage'.warehouses = homePage.warehouses
              /\ homePage'.refreshError # Null
              /\ homePage'.error = homePage.error]_vars

\* a polling refresh has failed after a load succeeded: the warning is set
\* beside the loaded rows
C16_RefreshFailedAfterLoad ==
    /\ \E i \in DOMAIN loads : ~loads[i].isInitialLoad /\ loads[i].stage = "failed"
    /\ homePage.refreshError # Null /\ homePage.error = Null
    /\ homePage.nfos.refresh > 0 /\ homePage.nfos.rows # <<>>

\* the error screen is rendered
ErrorShown == ~homePage.loading /\ homePage.error # Null

\* a failing load sets the blocking error when no load has succeeded yet
\* (and a failing first load ends loading), and leaves it alone otherwise
FailureSetsError ==
    \A i \in 1..MaxLoads :
        Fails(i) =>
            IF homePage.initialLoadComplete
            THEN homePage'.error = homePage.error
            ELSE (/\ homePage'.error # Null
                  /\ homePage'.refreshError = homePage.refreshError
                  /\ loads[i].isInitialLoad => ~homePage'.loading)

\* nothing but a failing load sets the blocking error
ErrorSetOnlyByFailure ==
    (homePage'.error # Null /\ homePage'.error # homePage.error) =>
        \E i \in 1..MaxLoads : Fails(i)

\* C17: the blocking error is set exactly when a load fails while no load
\* has yet succeeded; a failing first load sets it and ends loading; it is
\* never shown while a successfully loaded snapshot is held, however the
\* initial load and the polling refreshes interleave.
C17_BlockingError ==
    /\ [](homePage.initialLoadComplete => ~ErrorShown)
    /\ [][FailureSetsError]_vars
    /\ [][ErrorSetOnlyByFailure]_vars

\* C18: when a refresh completes, the engineer rows, the sites and the
\* warehouses shown all come from that refresh.
C18_WholesaleSnapshot ==
    [][\A i \in 1..MaxLoads :
          Completes(i) =>
              /\ homePage'.nfos.refresh = i
              /\ homePage'.sites = i
              /\ homePage'.warehouses = i]_vars

\* C19: after a successful refresh the engineer list holds one row per
\* username, the first fetched for it, holds no row without a username, and
\* holds every username that was fetched.
C19_OneRowPerUsername ==
    [][\A i \in 1..MaxLoads :
          Completes(i) =>
              LET fetched == loads[i].rows
                  list == homePage'.nfos.rows
                  named(u) == u # Null /\ Val(u) # <<>>
              IN  /\ \A j, k \in DOMAIN list :
                         j # k => list[j].username # list[k].username
                  /\ \A j \in DOMAIN list :
                         /\ named(list[j].username)
                         /\ \E k \in DOMAIN fetched :
                                /\ fetched[k] = list[j]
                                /\ \A m \in 1..(k - 1) :
                                       fetched[m].username # fetched[k].username
                  /\ \A k \in DOMAIN fetched :
                         named(fetched[k].username) =>
                             \E j \in DOMAIN list :
                                 list[j].username = fetched[k].username]_vars

\* the list built from five fetched rows, two of them for the same username
\* and two without a username
C19_DuplicatesDropped ==
    homePage.nfos.rows = <<NfoStatusRow(Some(<<"a">>), 5), NfoStatusRow(Some(<<"b">>), 1)>>

----------------------------------------------------------------------------
(* Site lists with repeated site ids: the lookups of RoutePlanner and Live Map *)

\* Site_Coordinates rows, several of them with the same site_id
DuplicateSites ==
    {SiteAt(<<"S", "1">>, NearPos), SiteAt(<<"S", "1">>, FarPos),
     [site_id |-> <<"S", "1">>, latitude |-> Num(NearPos[2]), longitude |-> NullNum],
     SiteAt(<<"S", "2">>, FarPos), SiteAt(<<"S", "2">>, NearPos),
     [site_id |-> <<"S", "2">>, latitude |-> NullNum, longitude |-> Num(FarPos[1])],
     SiteAt(<<"S", "3">>, NearPos)}

\* Array.from(new Map(entries).values()): a key stands where it was first
\* inserted and holds the value inserted last
MapValues(entries) ==
    LET last(k) == CHOOSE m \in k..Len(entries) :
                       /\ entries[m].site_id = entries[k].site_id
                       /\ \A n \in (m + 1)..Len(entries) :
                              entries[n].site_id # entries[k].site_id
        kept[k \in 0..Len(entries)] ==
            IF k = 0 THEN <<>>
            ELSE IF \A m \in 1..(k - 1) : entries[m].site_id # entries[k].site_id
                 THEN Append(kept[k - 1], entries[last(k)])
                 ELSE kept[k - 1]
    IN  kept[Len(entries)]

\* array.find(s => s.site_id === id) ?? null
FindSite(ss, id) ==
    LET hits == {i \in 1..Len(ss) : ss[i].site_id = id}
    IN  IF hits = {} THEN Null ELSE Some(ss[CHOOSE i \in hits : \A j \in hits : i <= j])

\* RoutePlanner: the sites offered by the selector
uniqueSites(ss) == MapValues(SelectSeq(ss, LAMBDA x : x.site_id # <<>>))

\* RoutePlanner: the site that is routed to
selectedSite(ss, selectedSiteId) == FindSite(ss, selectedSiteId)

\* Live Map: the sites with valid coordinates
allSitesWithCoords(ss) == SelectSeq(ss, LAMBDA x : hasValidLocation(SiteLoc(x)))

\* Live Map: siteById.get(id)
siteById(ss, id) == FindSite(MapValues(allSitesWithCoords(ss)), id)

\* the dashboard has fetched the site list
SitesFetched(ss) ==
    /\ siteLookup.sites = <<>> /\ ss # <<>>
    /\ siteLookup' = [siteLookup EXCEPT !.sites = ss]
    /\ UNCHANGED lookup
    /\ UNCHANGED <<routeVars, enrichVars, rowVars, slotVars, dashVars, joinVars, pageVars>>

\* the user picks option k of the Route Planner's site selector
SelectSite(k) ==
    /\ k \in DOMAIN uniqueSites(siteLookup.sites)
    /\ siteLookup' = [siteLookup EXCEPT
                         !.selectedSiteId = Some(uniqueSites(siteLookup.sites)[k].site_id)]
    /\ UNCHANGED lookup
    /\ UNCHANGED <<routeVars, enrichVars, rowVars, slotVars, dashVars, joinVars, pageVars>>

NextSites ==
    \/ \E ss \in ListsOf(DuplicateSites, MaxSites) : SitesFetched(ss)
    \/ \E k \in 1..MaxSites : SelectSite(k)

SpecSites == Init /\ [][NextSites]_vars

\* C20: with several records for one site id in the list, getSiteById, the
\* Route Planner's uniqueSites and selectedSite and the Live Map's siteById
\* all resolve the id to the first such record in list order.
C20_FirstRecordWins ==
    siteLookup.selectedSiteId # Null =>
        LET ss == siteLookup.sites
            id == Val(siteLookup.selectedSiteId)
            first == FindSite(ss, id)
            firstWithCoords == FindSite(allSitesWithCoords(ss), id)
        IN  /\ getSiteById(ss, Some(id)) = first
            /\ selectedSite(ss, id) = first
            /\ FindSite(uniqueSites(ss), id) = first
            /\ siteById(ss, id) = firstWithCoords

----------------------------------------------------------------------------
(* Route selector: engine failures *)

\* the exchange gave no route: it threw, reported no success, or was empty
GaveNoRoute(resp) == resp.thrown \/ ~resp.ok \/ resp.route = Null

\* C21: the route selector never throws: every engine failure (exception,
\* non-success response, empty result) becomes "no result" for that engine
\* alone, the other engine's route is still used, calculateBestRoute and
\* calculateRouteViaWarehouse return a RouteResult, and a leg is the
\* straight-line fallback only when neither engine gave a usable route.
C21_FailuresBecomeNoResult ==
    /\ \A l \in 1..2 :
           LET o == responses[l].ors
               m == responses[l].osrm
           IN  /\ (o # Null /\ GaveNoRoute(Val(o))) => orsResult[l] = Null
               /\ (m # Null /\ GaveNoRoute(Val(m))) => osrmResult[l] = Null
               /\ (o # Null /\ ~GaveNoRoute(Val(o))) => orsResult[l] = Val(o).route
               /\ (m # Null /\ ~GaveNoRoute(Val(m))) => osrmResult[l] = Val(m).route
               /\ (o # Null /\ m # Null) => legs[l] # Null
               /\ legs[l] # Null =>
                      /\ Val(legs[l]).isFallback <=>
                             (~Usable(orsResult[l]) /\ ~Usable(osrmResult[l]))
                      /\ (~Usable(orsResult[l]) /\ Usable(osrmResult[l])) =>
                             /\ Val(legs[l]).engine = "osrm"
                             /\ Val(legs[l]).distanceKm = Val(osrmResult[l]).distanceKm
                      /\ (Usable(orsResult[l]) /\ ~Usable(osrmResult[l])) =>
                             /\ Val(legs[l]).engine = "ors"
                             /\ Val(legs[l]).distanceKm = Val(orsResult[l]).distanceKm
    /\ (legs[NLegs] # Null /\ mode \in {"direct", "via"}) => (pc = "done" /\ result # Null)

\* a via-warehouse request has returned: on leg 1 ORS threw and OSRM gave the
\* route, on leg 2 ORS reported no success and OSRM was empty
C21_EnginesFailed ==
    /\ mode = "via" /\ pc = "done" /\ result # Null
    /\ responses[1].ors # Null /\ Val(responses[1].ors).thrown
    /\ Usable(osrmResult[1]) /\ ~Val(legs[1]).isFallback
    /\ responses[2].ors # Null /\ ~Val(responses[2].ors).thrown /\ ~Val(responses[2].ors).ok
    /\ responses[2].osrm # Null /\ Val(responses[2].osrm).ok
    /\ Val(responses[2].osrm).route = Null
    /\ Val(legs[2]).isFallback

----------------------------------------------------------------------------
(* The endpoints handed to calculateDistanceKm and to the engines *)

\* a call of calculateDistanceKm, or a leg of an engine request: <<from, to>>
ValidEndpoints(c) == hasValidLocation(c[1]) /\ hasValidLocation(c[2])

LocOf(n) == [lat |-> n.lat, lng |-> n.lng]

\* the calls of calculateDistanceKm made by findNearestSite
findNearestSiteCalls(nfoLoc, ss) ==
    IF ~hasValidLocation(nfoLoc) THEN {}
    ELSE {<<nfoLoc, SiteLoc(ss[i])>> :
              i \in {j \in 1..Len(ss) : hasValidLocation(SiteLoc(ss[j]))}}

\* the calls of calculateDistanceKm made while one row is enriched on the
\* dashboard
enrichedNfosCalls(n, ss, whs) ==
    LET nfoLoc == LocOf(n)
        hasValidNfoCoords == hasValidLocation(nfoLoc)
        assignedSiteId == trim(OrEmpty(n.site_id))
        assignedSite == getSiteById(ss, Some(assignedSiteId))
        nearest == findNearestSite(nfoLoc, ss)
        targetSite == enrichedTargetSite(n, ss, nearest)
        wh == matchingWarehouse(n, whs)
    IN  (IF /\ assignedSiteId # <<>> /\ hasValidNfoCoords
            /\ assignedSite # Null
            /\ hasValidLocation(SiteLoc(Val(assignedSite)))
         THEN {<<nfoLoc, SiteLoc(Val(assignedSite))>>} ELSE {})
        \cup findNearestSiteCalls(nfoLoc, ss)
        \cup (IF /\ hasValidNfoCoords /\ targetSite # Null
                 /\ hasValidLocation(SiteLoc(Val(targetSite)))
              THEN IF wh # Null
                   THEN {<<nfoLoc, SiteLoc(Val(wh))>>,
                         <<SiteLoc(Val(wh)), SiteLoc(Val(targetSite))>>}
                   ELSE {<<nfoLoc, SiteLoc(Val(targetSite))>>}
              ELSE {})

\* the legs FieldEngineerRow.handleRoute hands to lib/routing
handleRouteLegs(e, plan) ==
    IF plan.request = "via"
    THEN {<<LocOf(e), SiteLoc(Val(plan.warehouse))>>,
          <<SiteLoc(Val(plan.warehouse)), SiteLoc(Val(plan.target))>>}
    ELSE IF plan.request = "direct" THEN {<<LocOf(e), SiteLoc(Val(plan.target))>>}
    ELSE {}

\* Live Map: the calls of calculateDistanceKm made by enrichedNfos and
\* closestNfosToSelectedSite, and the request of fetchRoute for each engineer
LiveMapCalls(ns, ss, selectedSiteFromSearch) ==
    LET nfosWithCoords == SelectSeq(ns, LAMBDA r : hasValidLocation(LocOf(r)))
        rows == {nfosWithCoords[i] : i \in 1..Len(nfosWithCoords)}
        activeSite(r) == getSiteById(ss, r.site_id)
        enrichedCalls(r) ==
            IF /\ r.status = "busy" /\ r.site_id # Null /\ Val(r.site_id) # <<>>
               /\ hasValidLocation(LocOf(r))
            THEN IF /\ activeSite(r) # Null
                    /\ hasValidLocation(SiteLoc(Val(activeSite(r))))
                 THEN {<<LocOf(r), SiteLoc(Val(activeSite(r)))>>} ELSE {}
            ELSE findNearestSiteCalls(LocOf(r), ss)
        siteOk == /\ selectedSiteFromSearch # Null
                  /\ hasValidLocation(SiteLoc(Val(selectedSiteFromSearch)))
        closest == IF ~siteOk THEN {}
                   ELSE {<<LocOf(r), SiteLoc(Val(selectedSiteFromSearch))>> : r \in rows}
        fetchRoute == IF ~siteOk THEN {}
                      ELSE {<<LocOf(r), SiteLoc(Val(selectedSiteFromSearch))>> :
                                r \in {x \in rows : hasValidLocation(LocOf(x))}}
    IN  UNION {enrichedCalls(r) : r \in rows} \cup closest \cup fetchRoute

\* Route Planner: canRoute
canRoute(selNfo, selSite, selWarehouse) ==
    /\ selNfo # Null /\ selSite # Null
    /\ hasValidLocation(LocOf(Val(selNfo)))
    /\ hasValidLocation(SiteLoc(Val(selSite)))
    /\ selWarehouse # Null => hasValidLocation(SiteLoc(Val(selWarehouse)))

\* Route Planner: airDistances, null or the three air distances
airDistances(selNfo, selSite, selWarehouse) ==
    IF selNfo = Null \/ selSite = Null THEN Null
    ELSE IF ~hasValidLocation(LocOf(Val(selNfo))) THEN Null
    ELSE IF ~hasValidLocation(SiteLoc(Val(selSite))) THEN Null
    ELSE LET nfoLoc == LocOf(Val(selNfo))
             siteLoc == SiteLoc(Val(selSite))
             hasWarehouse == /\ selWarehouse # Null
                             /\ hasValidLocation(SiteLoc(Val(selWarehouse)))
         IN  Some([nfoToSite |-> Num(calculateDistanceKm(nfoLoc, siteLoc)),
                   nfoToWarehouse |->
                       IF hasWarehouse
                       THEN Num(calculateDistanceKm(nfoLoc,
                                                    SiteLoc(Val(selWarehouse))))
                       ELSE NullNum,
                   warehouseToSite |->
                       IF hasWarehouse
                       THEN Num(calculateDistanceKm(SiteLoc(Val(selWarehouse)),
                                                    siteLoc))
                       ELSE NullNum])

\* Route Planner: the calls of calculateDistanceKm made by airDistances and
\* the legs fetchRoute hands to lib/routing
RoutePlannerCalls(selNfo, selSite, selWarehouse) ==
    LET air == airDistances(selNfo, selSite, selWarehouse)
        nfoLoc == LocOf(Val(selNfo))
        siteLoc == SiteLoc(Val(selSite))
        whLoc == SiteLoc(Val(selWarehouse))
        hasWarehouse == /\ selWarehouse # Null
                        /\ hasValidLocation(SiteLoc(Val(selWarehouse)))
        viaLegs == {<<nfoLoc, whLoc>>, <<whLoc, siteLoc>>}
    IN  (IF air = Null THEN {}
         ELSE {<<nfoLoc, siteLoc>>} \cup (IF hasWarehouse THEN viaLegs ELSE {}))
        \cup (IF ~canRoute(selNfo, selSite, selWarehouse) THEN {}
              ELSE IF hasWarehouse THEN viaLegs ELSE {<<nfoLoc, siteLoc>>})

Optional(seq) == {Null} \cup {Some(seq[i]) : i \in 1..Len(seq)}

\* C22: no distance is computed from an invalid endpoint: in enrichment, on
\* the Live Map and in the Route Planner, calculateDistanceKm and the engines
\* are reached only with two endpoints of non-null finite latitude and
\* longitude, and otherwise the derived distance is null.
C22_ValidEndpointsOnly ==
    /\ enriched # Null =>
           LET n == Val(nfo)
               e == Val(enriched)
               target == enrichedTargetSite(n, sites, findNearestSite(LocOf(n), sites))
               ns == <<n>>
           IN  /\ \A c \in enrichedNfosCalls(n, sites, warehouses) : ValidEndpoints(c)
               /\ ~hasValidLocation(LocOf(n)) =>
                      /\ e.distanceToAssignedSiteKm = NullNum
                      /\ e.nearestSiteDistanceKm = NullNum
                      /\ e.airDistanceKm = NullNum
               /\ (target = Null \/ ~hasValidLocation(SiteLoc(Val(target)))) =>
                      e.airDistanceKm = NullNum
               /\ e.nearestSiteId # Null =>
                      \E i \in 1..Len(sites) :
                          /\ sites[i].site_id = Val(e.nearestSiteId)
                          /\ hasValidLocation(SiteLoc(sites[i]))
               /\ rowPlan # Null =>
                      \A c \in handleRouteLegs(e, Val(rowPlan)) : ValidEndpoints(c)
               /\ \A site \in Optional(sites) :
                      /\ \A c \in LiveMapCalls(ns, sites, site) : ValidEndpoints(c)
                      /\ \A wh \in Optional(warehouses) :
                             LET air == airDistances(nfo, site, wh)
                             IN  /\ \A c \in RoutePlannerCalls(nfo, site, wh) :
                                        ValidEndpoints(c)
                                 /\ (\/ ~hasValidLocation(LocOf(n))
                                     \/ site = Null
                                     \/ ~hasValidLocation(SiteLoc(Val(site)))) =>
                                        air = Null
                                 /\ (/\ air # Null /\ wh # Null
                                     /\ ~hasValidLocation(SiteLoc(Val(wh)))) =>
                                        /\ Val(air).nfoToWarehouse = NullNum
                                        /\ Val(air).warehouseToSite = NullNum

\* an engineer with valid coordinates is assigned to a site without
\* coordinates and is to go through a warehouse without coordinates: the
\* nearest-site search still measured a distance, the air distance is null
\* and the Route click was refused
C22_InvalidEndpointsSkipped ==
    /\ enriched # Null /\ rowPlan # Null
    /\ hasValidLocation(LocOf(Val(nfo)))
    /\ \E i \in 1..Len(warehouses) :
           /\ namesMatch(warehouses[i].name, trim(OrEmpty(Val(nfo).warehouse_name)))
           /\ ~hasValidLocation(SiteLoc(warehouses[i]))
    /\ Val(nfo).via_warehouse
    /\ enrichedNfosCalls(Val(nfo), sites, warehouses) # {}
    /\ Val(enriched).airDistanceKm # NullNum
    /\ Val(rowPlan).request = "direct"

----------------------------------------------------------------------------
(* lib/nfoHelpers.ts: getSiteById and findNearestSite on their own *)

MaxLookupSites == 3

\* site rows as the table may hold them: identifiers differing in case and
\* surrounding blanks, a blank identifier, an empty one, rows without
\* coordinates, two rows at one position
LookupSites ==
    { SiteAt(<<"S", "1">>, NearPos),
      [site_id |-> <<" ", "s", "1">>, latitude |-> NullNum, longitude |-> NullNum],
      SiteAt(<<"S", "2">>, NearPos),
      SiteAt(<<"S", "3">>, FarPos),
      SiteAt(<<" ">>, WhPos),
      [site_id |-> <<>>, latitude |-> Num(WhPos[2]), longitude |-> NaN] }

LookupQueries ==
    {Null, Some(<<>>), Some(<<" ">>), Some(<<"s", "1", " ">>), Some(<<"S", "3">>),
     Some(<<"S", "9">>)}

LookupPoints ==
    { [lat |-> Num(NfoPos[2]), lng |-> Num(NfoPos[1])],
      [lat |-> Num(WhPos[2]), lng |-> Num(WhPos[1])],
      [lat |-> Num(NfoPos[2]), lng |-> NullNum],
      [lat |-> Infinity, lng |-> Num(NfoPos[1])] }

\* getSiteById(sites, siteId) is called
GetSiteById(ss, siteId) ==
    /\ lookup.fn = "none"
    /\ lookup' = [NoLookup EXCEPT !.fn = "getSiteById", !.sites = ss, !.siteId = siteId,
                                  !.found = getSiteById(ss, siteId)]
    /\ UNCHANGED siteLookup
    /\ UNCHANGED <<routeVars, enrichVars, rowVars, slotVars, dashVars, joinVars, pageVars>>

\* findNearestSite(nfoLoc, sites) is called
FindNearestSite(nfoLoc, ss) ==
    /\ lookup.fn = "none"
    /\ lookup' = [NoLookup EXCEPT !.fn = "findNearestSite", !.sites = ss,
                                  !.nfoLoc = Some(nfoLoc),
                                  !.nearest = findNearestSite(nfoLoc, ss)]
    /\ UNCHANGED siteLookup
    /\ UNCHANGED <<routeVars, enrichVars, rowVars, slotVars, dashVars, joinVars, pageVars>>

NextLookup ==
    \/ \E ss \in ListsOf(LookupSites, MaxLookupSites), q \in LookupQueries :
           GetSiteById(ss, q)
    \/ \E ss \in ListsOf(LookupSites, MaxLookupSites), p \in LookupPoints :
           FindNearestSite(p, ss)

SpecLookup == Init /\ [][NextLookup]_vars

\* the sites whose identifier, trimmed and lower-cased, equals the trimmed
\* lower-cased query
QueryMatches ==
    {i \in 1..Len(lookup.sites) :
         NormId(lookup.sites[i].site_id) = NormId(Val(lookup.siteId))}

\* C23: getSiteById returns the first site in list order whose identifier,
\* trimmed and lower-cased, equals the trimmed lower-cased query, and returns
\* null when the query is empty or null or when no site matches; a query that
\* is empty after trimming matches no site.
C23_GetSiteById ==
    lookup.fn = "getSiteById" =>
        IF lookup.siteId = Null \/ NormId(Val(lookup.siteId)) = <<>>
        THEN lookup.found = Null
        ELSE IF QueryMatches = {} THEN lookup.found = Null
        ELSE lookup.found =
                 Some(lookup.sites[CHOOSE i \in QueryMatches : \A j \in QueryMatches : i <= j])

\* the sites of the call that have valid coordinates
LookupValid == {i \in 1..Len(lookup.sites) : hasValidLocation(SiteLoc(lookup.sites[i]))}

LookupDistance(i) == calculateDistanceKm(Val(lookup.nfoLoc), SiteLoc(lookup.sites[i]))

\* C24: findNearestSite returns null when the query point is invalid or no
\* site has valid coordinates, and otherwise a site with valid coordinates at
\* minimal distance, with that distance; among sites at the minimal distance
\* it returns the first in the list; a site without valid coordinates never
\* wins.
C24_FindNearestSite ==
    lookup.fn = "findNearestSite" =>
        IF ~hasValidLocation(Val(lookup.nfoLoc)) \/ LookupValid = {}
        THEN lookup.nearest = Null
        ELSE /\ lookup.nearest # Null
             /\ \E i \in LookupValid :
                    /\ Val(lookup.nearest) =
                           [site |-> lookup.sites[i], distanceKm |-> LookupDistance(i)]
                    /\ \A j \in LookupValid :
                           \/ LookupDistance(i) < LookupDistance(j)
                           \/ LookupDistance(i) = LookupDistance(j) /\ i <= j
             /\ hasValidLocation(SiteLoc(Val(lookup.nearest).site))

\* the list starts with a site without coordinates, followed by two sites at
\* the same minimal distance: the first of the two is returned
C24_TieGoesToFirst ==
    /\ lookup.fn = "findNearestSite" /\ Len(lookup.sites) = 3
    /\ ~hasValidLocation(SiteLoc(lookup.sites[1]))
    /\ LookupValid = {2, 3}
    /\ lookup.sites[2] # lookup.sites[3]
    /\ hasValidLocation(Val(lookup.nfoLoc))
    /\ LookupDistance(2) = LookupDistance(3)
    /\ lookup.nearest = Some([site |-> lookup.sites[2], distanceKm |-> LookupDistance(2)])

----------------------------------------------------------------------------
(* lib/routing.ts: the combined path of a via-warehouse route *)

\* offsets, in 1e-5 degree, of leg 2's first point from the warehouse
JunctionOffsets == {-11, -10, -9, 0, 9, 10}

\* coordinates of leg 1 (engineer to warehouse): none, the straight line, a
\* route ending on the warehouse
Leg1Paths == {<<>>, <<NfoPos, WhPos>>, <<NfoPos, Midpoint(NfoPos, WhPos), WhPos>>}

\* coordinates of leg 2 (warehouse to site) starting on the point p
Leg2Paths(p) == {<<p>>, <<p, NearPos>>, <<p, Midpoint(WhPos, NearPos), NearPos>>}

\* step 5 of calculateRouteViaWarehouse on the two legs' coordinates
CombineLegs(c1, c2) ==
    /\ joined.combined = Null
    /\ joined' = [leg1 |-> c1, leg2 |-> c2, combined |-> Some(CombineCoordinates(c1, c2))]
    /\ UNCHANGED <<routeVars, enrichVars, rowVars, slotVars, dashVars, siteVars, pageVars>>

NextJoin ==
    \/ \E c1 \in Leg1Paths : CombineLegs(c1, <<>>)
    \/ \E c1 \in Leg1Paths, dx \in JunctionOffsets, dy \in JunctionOffsets :
           \E c2 \in Leg2Paths(<<WhPos[1] + dx, WhPos[2] + dy>>) : CombineLegs(c1, c2)

SpecJoin == Init /\ [][NextJoin]_vars

Abs(x) == IF x < 0 THEN -x ELSE x

\* leg 2's first point has both components closer than 0.0001 degree to
\* those of leg 1's last point
StartsOnEndOfLeg1 ==
    /\ joined.leg1 # <<>> /\ joined.leg2 # <<>>
    /\ \A k \in 1..2 : Abs(joined.leg1[Len(joined.leg1)][k] - joined.leg2[1][k]) < 10

\* C25: the combined path of a via-warehouse route is leg 1's coordinates
\* followed by leg 2's coordinates in their original order, leg 2's first
\* point being omitted exactly when both of its components lie within 0.0001
\* degree of leg 1's last point; no other point is dropped or reordered.
C25_CombinedPath ==
    joined.combined # Null =>
        LET c == Val(joined.combined)
            skip == IF StartsOnEndOfLeg1 THEN 1 ELSE 0
        IN  /\ Len(c) = Len(joined.leg1) + Len(joined.leg2) - skip
            /\ \A i \in 1..Len(joined.leg1) : c[i] = joined.leg1[i]
            /\ \A j \in (1 + skip)..Len(joined.leg2) :
                   c[Len(joined.leg1) + j - skip] = joined.leg2[j]

\* leg 2 starts 0.00009 degree east of the warehouse and exactly on its
\* latitude: its first point was omitted, the rest follows leg 1
C25_JunctionDropped ==
    /\ joined.combined # Null
    /\ Len(joined.leg1) = 3 /\ Len(joined.leg2) = 3
    /\ joined.leg2[1] = <<WhPos[1] + 9, WhPos[2]>>
    /\ Len(Val(joined.combined)) = 5
    /\ Val(joined.combined)[4] = joined.leg2[2]

----------------------------------------------------------------------------
(* Route Planner: selections made while a route request is in flight *)

\* what the selectors and search boxes can be set to
SelectionPatches ==
    {<<"selectedSiteId", "S1">>, <<"selectedSiteId", "S2">>,
     <<"selectedNfoUsername", "nfo1">>, <<"selectedNfoUsername", "">>,
     <<"selectedWarehouseId", "1">>,
     <<"siteSearch", "s">>, <<"nfoSearch", "n">>}

\* onChange of a selector or search box: updateState({field: value}) on the
\* state of the current render; canRoute is recomputed
RoutePlannerUpdateState(patch) ==
    /\ routePlanner.selection[patch[1]] # patch[2]
    /\ LET next == [routePlanner.selection EXCEPT ![patch[1]] = patch[2]]
       IN  routePlanner' =
               [routePlanner EXCEPT
                   !.selection = next,
                   !.canRoute = next.selectedNfoUsername # "" /\ next.selectedSiteId # ""]
    /\ UNCHANGED <<fieldEngineerRow, rowPending, rowCount, plannerPending, plannerCount>>
    /\ UNCHANGED <<routeVars, enrichVars, slotVars, dashVars, siteVars, joinVars, pageVars>>

NextPlanner ==
    \/ \E patch \in SelectionPatches : RoutePlannerUpdateState(patch)
    \/ RoutePlannerFetchRoute
    \/ \E c \in plannerPending, res \in LibraryResults : RoutePlannerRouteResolves(c, res)
    \/ RoutePlannerRemount
    \/ RoutePlannerHandleClearRoute

SpecPlanner == Init /\ [][NextPlanner]_vars

\* a route request of the Route Planner completes
PlannerRequestCompletes == \E c \in plannerPending : plannerPending' = plannerPending \ {c}

CompletionKeepsSelection ==
    PlannerRequestCompletes => routePlanner'.selection = routePlanner.selection

\* C26: in the Route Planner the completion of a route request changes only
\* routeResult: selectedSiteId, selectedWarehouseId, selectedNfoUsername,
\* siteSearch and nfoSearch keep the values the user gave them while the
\* request was in flight.
C26_CompletionKeepsSelection == [][CompletionKeepsSelection]_vars

----------------------------------------------------------------------------
(* Dashboard data: overlapping refreshes *)

\* what is displayed comes from a call started no earlier than before
SnapshotMovesForward ==
    /\ homePage'.nfos.refresh >= homePage.nfos.refresh
    /\ homePage'.sites >= homePage.sites
    /\ homePage'.warehouses >= homePage.warehouses
    /\ homePage'.lastRefresh >= homePage.lastRefresh

\* C27: refreshes take effect in the order they were started: when the timer
\* fires while an earlier refresh (or the initial load) is in flight, the
\* displayed snapshot and lastRefresh are never replaced by the data of a
\* refresh that started earlier than the one whose data is displayed.
C27_RefreshesInStartOrder == [][SnapshotMovesForward]_vars

----------------------------------------------------------------------------
(* Live Map: the active route and the selected site *)

\* the route drawn ends on the selected site
RouteOfSelectedSite ==
    liveMap.activeRoute # Null =>
        /\ liveMap.selectedSiteFromSearch # Null
        /\ Val(liveMap.activeRoute).end = Val(liveMap.selectedSiteFromSearch)

\* changing or clearing the selected site clears the route and its error
SelectionClearsRoute ==
    liveMap'.selectedSiteFromSearch # liveMap.selectedSiteFromSearch =>
        liveMap'.activeRoute = Null /\ liveMap'.routeError = Null

\* a request issued for a site that is no longer selected ends without
\* touching the route or the loading indicator
StaleRequestIgnored ==
    \A p \in livePending :
        (/\ livePending' = livePending \ {p}
         /\ liveMap.selectedSiteFromSearch # Some(p.site)) =>
            /\ liveMap'.activeRoute = liveMap.activeRoute
            /\ liveMap'.routeLoading = liveMap.routeLoading

\* C28: on the Live Map a non-null active route always belongs to the
\* selected site: changing or clearing the selection clears the route and
\* its error, and a request issued for the previously selected site cannot
\* install its route, or clear the loading indicator of a later request,
\* after the selection has changed.
C28_RouteOfSelectedSite ==
    /\ []RouteOfSelectedSite
    /\ [][SelectionClearsRoute]_vars
    /\ [][StaleRequestIgnored]_vars

----------------------------------------------------------------------------
(* Via-warehouse routes with a leg that fell back *)

\* neither engine gave a usable route for leg l
LegFellBack(l) == ~Usable(orsResult[l]) /\ ~Usable(osrmResult[l])

\* the driving distance and duration of the engine that won leg l
LegDriving(l) ==
    LET won == IF Val(legs[l]).engine = "ors" THEN Val(orsResult[l])
               ELSE Val(osrmResult[l])
    IN  [distanceKm |-> won.distanceKm, durationMin |-> won.durationMin]

\* leg f fell back and leg o was routed
OneLegFellBack(f, o) ==
    /\ pc = "done" /\ mode = "via"
    /\ LegFellBack(f) /\ ~LegFellBack(o)

\* C29: a via-warehouse result is flagged fallback exactly when both legs
\* fell back to the straight line; when exactly one leg fell back the result
\* is a routed one (isFallback false) whose distance is that leg's air
\* distance plus the other leg's driving distance, whose duration is the
\* other leg's alone, and which carries the fallback warning of that leg
\* unless the total triggers the 2.0 x sanity warning.
C29_OneLegFallback ==
    (pc = "done" /\ mode = "via") =>
        /\ Val(result).isFallback <=> (LegFellBack(1) /\ LegFellBack(2))
        /\ \A f \in 1..2 :
               LET o == 3 - f
                   r == Val(result)
                   directKm == haversineKm(req.nfo, req.site)
               IN  OneLegFellBack(f, o) =>
                       /\ ~r.isFallback
                       /\ r.distanceKm = LegAir(req, f) + LegDriving(o).distanceKm
                       /\ r.durationMin = 0 + LegDriving(o).durationMin
                       /\ r.warning # Null
                       /\ IF RatioAboveThreshold(r.distanceKm, directKm)
                          THEN r.warning = Some(SanityWarning(r.distanceKm, directKm))
                          ELSE Contains(Val(r.warning), FallbackWarning)

\* leg 1 fell back, leg 2 was routed, and the total stays within 2.0 x the
\* direct air distance: the routed result carries the fallback warning
C29_FirstLegFellBack ==
    /\ OneLegFellBack(1, 2)
    /\ ~Val(result).isFallback
    /\ ~RatioAboveThreshold(Val(result).distanceKm, haversineKm(req.nfo, req.site))
    /\ Contains(Val(Val(result).warning), FallbackWarning)
    /\ Val(result).durationMin > 0

----------------------------------------------------------------------------
(* HomePage.fetchDashboardData: the pagination of Site_Coordinates *)

\* rows per page (1000 in the code)
PAGE_SIZE == 2

\* rows in the Site_Coordinates table
MaxRows == 5

\* refreshes followed
MaxRefreshes == 3

\* the table with n rows, in the order the queries return them
SiteTable(n) == [i \in 1..n |-> i]

\* .range(start, end) on the table: rows start..end, counted from 0, as far
\* as the table goes
Range(table, start, end) ==
    SubSeq(table, start + 1, IF end + 1 < Len(table) THEN end + 1 ELSE Len(table))

\* the range of page pageNumber
PageRange(pageNumber) ==
    [start |-> pageNumber * PAGE_SIZE, end |-> pageNumber * PAGE_SIZE + PAGE_SIZE - 1]

\* the loop goes on after a page that is empty
LastPageWhenEmpty(page) == page = <<>>

\* the loop ends after a page that is empty or shorter than PAGE_SIZE
LastPage(page) == page = <<>> \/ Len(page) < PAGE_SIZE

\* a refresh reaches the site query: the loop starts and requests page 0
StartSitePages(n) ==
    /\ pager.status # "paging" /\ pager.refreshes < MaxRefreshes
    /\ pager' = [pager EXCEPT !.table = SiteTable(n), !.status = "paging",
                              !.pageNumber = 0, !.allSiteRows = <<>>,
                              !.requests = <<PageRange(0)>>,
                              !.refreshes = @ + 1]
    /\ UNCHANGED <<routeVars, enrichVars, rowVars, slotVars, dashVars, siteVars, joinVars>>

\* the page requested last arrives: its rows are appended and either the
\* next page is requested or the loop ends and setSites stores the rows
SitePageLoaded ==
    /\ pager.status = "paging"
    /\ LET r == PageRange(pager.pageNumber)
           siteRowsPage == Range(pager.table, r.start, r.end)
           rows == pager.allSiteRows \o siteRowsPage
       IN  pager' =
               IF LastPage(siteRowsPage)
               THEN [pager EXCEPT !.allSiteRows = rows, !.status = "stored",
                                  !.pageNumber = IF siteRowsPage = <<>> THEN @ ELSE @ + 1,
                                  !.sites = Some(rows)]
               ELSE [pager EXCEPT !.allSiteRows = rows, !.pageNumber = @ + 1,
                                  !.requests = Append(@, PageRange(pager.pageNumber + 1))]
    /\ UNCHANGED <<routeVars, enrichVars, rowVars, slotVars, dashVars, siteVars, joinVars>>

\* the page requested last comes back with an error: the refresh throws
SitePageFails ==
    /\ pager.status = "paging"
    /\ pager' = [pager EXCEPT !.status = "failed"]
    /\ UNCHANGED <<routeVars, enrichVars, rowVars, slotVars, dashVars, siteVars, joinVars>>

NextPages ==
    \/ \E n \in 0..MaxRows : StartSitePages(n)
    \/ SitePageLoaded
    \/ SitePageFails

SpecPages == Init /\ [][NextPages]_vars

\* every request is answered
SpecPagesFair == SpecPages /\ WF_vars(SitePageLoaded \/ SitePageFails)

\* the ranges requested so far are the consecutive pages from row 0 on, and
\* every page before the last requested one was full
ConsecutiveRanges ==
    /\ \A k \in 1..Len(pager.requests) :
           pager.requests[k] = [start |-> (k - 1) * PAGE_SIZE, end |-> k * PAGE_SIZE - 1]
    /\ Len(pager.table) >= (Len(pager.requests) - 1) * PAGE_SIZE
    /\ pager.status = "paging" =>
           pager.allSiteRows = SubSeq(pager.table, 1, (Len(pager.requests) - 1) * PAGE_SIZE)

\* the loop has ended: every row once, in table order, no request past the
\* first page that was empty or short
AllRowsCollected ==
    pager.status = "stored" =>
        /\ pager.allSiteRows = pager.table
        /\ pager.sites = Some(pager.table)
        /\ Len(pager.requests) = (Len(pager.table) \div PAGE_SIZE) + 1

\* a step in which the stored site list changes stores a complete table
NoPartialList ==
    pager'.sites # pager.sites =>
        pager'.status = "stored" /\ pager'.sites = Some(pager'.table)

\* a refresh that fails on a page leaves the stored site list as it was
FailureStoresNothing ==
    (pager.status = "paging" /\ pager'.status = "failed") => pager'.sites = pager.sites

\* C30: the site pagination loop of a refresh terminates for every finite
\* site table and collects every row exactly once in page order: it requests
\* consecutive PAGE_SIZE-row ranges starting at 0 and stops at the first page
\* that is empty or shorter than PAGE_SIZE rows; an error on any page aborts
\* the refresh without storing a partial site list.
C30_SitePagination ==
    /\ [](ConsecutiveRanges /\ AllRowsCollected)
    /\ [][NoPartialList]_vars
    /\ [][FailureStoresNothing]_vars
    /\ (pager.status = "paging") ~> (pager.status \in {"stored", "failed"})

\* a table of two full pages and a short one was collected after an earlier
\* refresh had failed on a page
C30_ThreePagesCollected ==
    /\ pager.status = "stored" /\ pager.refreshes = 2
    /\ Len(pager.table) = 2 * PAGE_SIZE + 1
    /\ Len(pager.requests) = 3
    /\ pager.sites = Some(pager.table)

====
